---- MODULE Spec2Model ----
(***************************************************************************)
(* Model of the docstring checker of amazon-braket-build-tools:            *)
(* src/braket/flake8_plugins/braket_checkstyle_plugin.py (class _Visitor). *)
(*                                                                         *)
(* A Python str is a sequence of one-character strings, so that the        *)
(* regular expressions, strip(), split() and the slices of the source act  *)
(* on the characters of a line.  None is a value of its own for every type *)
(* that can hold it (NoneStr, NoneInt, NoneSet, NoneNode).                 *)
(***************************************************************************)
EXTENDS Integers, Sequences, FiniteSets, TLC

VARIABLES node, doc_lines, line_no, context, problems, pc, exception,
          annotation_node, doc_str, type_annotated, type_documented, types_same,
          module_body, body_no,
          checker_pc, checker_node, checker_doc_lines, checker_line_no,
          checker_context, checker_messages

\* the argument and the result of a call of _annotation_to_doc_str, and the
\* arguments and the result of a call of _are_type_strings_same
calls == <<annotation_node, doc_str, type_annotated, type_documented, types_same>>

\* the function definitions of the module that visit() walks, and the number
\* of them that generic_visit has handed to visit_FunctionDef
walk == <<module_body, body_no>>

\* the pylint checker (BraketCheckstyleChecker) run on the same function:
\* where visit_functiondef is, the lines and the DocContext of its
\* _check_documentation, and the messages it has added
checker ==
    <<checker_pc, checker_node, checker_doc_lines, checker_line_no,
      checker_context, checker_messages>>

vars ==
    <<node, doc_lines, line_no, context, problems, pc, exception, calls, walk,
      checker>>

(***************************************************************************)
(* Python values                                                           *)
(***************************************************************************)
NoneStr == <<"None">>
NoneInt == -1
NoneSet == {NoneInt}
NoneNode == [kind |-> "None"]

\* a local variable: F applied to the value v it is bound to.  The bodies
\* below bind their locals this way, in the order the source assigns them.
Let(v, F(_)) == F(v)

\* the characters re's \s matches that a line of doc.s.split("\n") can hold
Whitespace == {" ", "\t"}

\* the backtick character (the TLA+ lexer takes no backtick in a string)
Backtick == "<backtick>"

\* the characters re's \w matches
WordChars ==
    {"a", "b", "c", "d", "e", "f", "g", "h", "i", "j", "k", "l", "m",
     "n", "o", "p", "q", "r", "s", "t", "u", "v", "w", "x", "y", "z",
     "A", "B", "C", "D", "E", "F", "G", "H", "I", "J", "K", "L", "M",
     "N", "O", "P", "Q", "R", "S", "T", "U", "V", "W", "X", "Y", "Z",
     "0", "1", "2", "3", "4", "5", "6", "7", "8", "9", "_"}

\* s[n:]
Drop(s, n) == SubSeq(s, n + 1, Len(s))

\* s[:n]
Take(s, n) == SubSeq(s, 1, IF n < Len(s) THEN n ELSE Len(s))

\* s.startswith(prefix)
startswith(s, prefix) ==
    /\ Len(prefix) <= Len(s)
    /\ SubSeq(s, 1, Len(prefix)) = prefix

\* the number of characters of cls that s holds in a row from position i on
SpanFrom(s, i, cls) ==
    IF \E j \in i..Len(s) : s[j] \notin cls
    THEN (CHOOSE j \in i..Len(s) :
             s[j] \notin cls /\ \A k \in i..(j - 1) : s[k] \in cls) - i
    ELSE IF i > Len(s) THEN 0
    ELSE Len(s) - i + 1

\* the length of the longest prefix of s made of characters of cls:
\* what a greedy cls* consumes at the start of s
Span(s, cls) == SpanFrom(s, 1, cls)

\* the number of characters of cls that s holds in a row from position i down
SpanBack(s, i, cls) ==
    IF \E j \in 1..i : s[j] \notin cls
    THEN i - (CHOOSE j \in 1..i :
                 s[j] \notin cls /\ \A k \in (j + 1)..i : s[k] \in cls)
    ELSE IF i < 1 THEN 0
    ELSE i

\* the length of the longest suffix of s made of characters of cls
SpanEnd(s, cls) == SpanBack(s, Len(s), cls)

\* s.strip()
strip(s) ==
    Let(Span(s, Whitespace), LAMBDA lead :
        IF lead = Len(s) THEN <<>>
        ELSE SubSeq(s, lead + 1, Len(s) - SpanEnd(s, Whitespace)))

\* s.strip(c) for a one-character c
strip_chars(s, c) ==
    Let(Span(s, {c}), LAMBDA lead :
        IF lead = Len(s) THEN <<>>
        ELSE SubSeq(s, lead + 1, Len(s) - SpanEnd(s, {c})))

\* the position of the first occurrence of character c in s from position i
\* on, 0 when absent
FindFrom(s, i, c) ==
    IF \E j \in i..Len(s) : s[j] = c
    THEN CHOOSE j \in i..Len(s) : s[j] = c /\ \A k \in i..(j - 1) : s[k] # c
    ELSE 0

\* the position of the first occurrence of character c in s, 0 when absent
Find(s, c) == FindFrom(s, 1, c)

\* the position of the last occurrence of character c in s up to position i,
\* 0 when absent
RFindFrom(s, i, c) ==
    IF \E j \in 1..i : s[j] = c
    THEN CHOOSE j \in 1..i : s[j] = c /\ \A k \in (j + 1)..i : s[k] # c
    ELSE 0

\* the position of the last occurrence of character c in s, 0 when absent
RFind(s, c) == RFindFrom(s, Len(s), c)

\* s.split(sep) for a one-character separator
RECURSIVE split(_, _)
split(s, sep) ==
    Let(Find(s, sep), LAMBDA i :
        IF i = 0 THEN <<s>>
        ELSE <<SubSeq(s, 1, i - 1)>> \o split(Drop(s, i), sep))

\* sep.join(values) for a one-character separator
RECURSIVE join(_, _)
join(sep, values) ==
    IF Len(values) = 0 THEN <<>>
    ELSE IF Len(values) = 1 THEN values[1]
    ELSE values[1] \o <<sep>> \o join(sep, Tail(values))

\* _remove_all_spaces that leaves the string as it is
_remove_all_spaces_kept(string) == string

\* re.sub(r"\s+", "", string)
_remove_all_spaces(string) ==
    SelectSeq(string, LAMBDA c : c \notin Whitespace)

\* _are_type_strings_same without the dotted path: equal strings only
_are_type_strings_same_exact(annotated_type, documented_type) ==
    annotated_type = documented_type

_are_type_strings_same(annotated_type, documented_type) ==
    IF annotated_type = documented_type THEN TRUE
    ELSE Let(split(documented_type, "."), LAMBDA param_split :
             IF Len(param_split) > 1
             THEN annotated_type = param_split[Len(param_split)]
             ELSE FALSE)

(***************************************************************************)
(* The regular expressions of _Visitor.  X(line) is X.match(line): a       *)
(* record with the flag matched and, when it matched, the groups.          *)
(***************************************************************************)
NoMatch == [matched |-> FALSE, groups |-> <<>>]

\* s is \s*:\s*$
HeaderEnd(s) ==
    Let(Drop(s, Span(s, Whitespace)), LAMBDA at_colon :
        /\ Len(at_colon) > 0
        /\ at_colon[1] = ":"
        /\ Span(Tail(at_colon), Whitespace) = Len(at_colon) - 1)

\* ^(\s*)(kw1|kw2|...)\s*:\s*$ : group 1, or NoMatch
HeaderMatch(line, keywords) ==
    Let(Span(line, Whitespace), LAMBDA indent :
    Let(Drop(line, indent), LAMBDA rest :
        IF \E kw \in keywords :
               startswith(rest, kw) /\ HeaderEnd(Drop(rest, Len(kw)))
        THEN [matched |-> TRUE, groups |-> <<Take(line, indent)>>]
        ELSE NoMatch))

ARGS_REGEX(line) == HeaderMatch(line, {<<"A", "r", "g", "s">>})

RETURN_REGEX(line) ==
    HeaderMatch(line, {<<"R", "e", "t", "u", "r", "n", "s">>,
                       <<"Y", "i", "e", "l", "d", "s">>})

MISC_REGEX(line) ==
    HeaderMatch(line, {<<"T", "h", "r", "o", "w", "s">>,
                       <<"R", "a", "i", "s", "e", "s">>,
                       <<"S", "e", "e", " ", "A", "l", "s", "o">>,
                       <<"N", "o", "t", "e">>,
                       <<"E", "x", "a", "m", "p", "l", "e">>,
                       <<"E", "x", "a", "m", "p", "l", "e", "s">>,
                       <<"W", "a", "r", "n", "i", "n", "g", "s">>})

\* 1 when s starts with the character c, else 0: what c? consumes
Optional(s, c) == IF Len(s) > 0 /\ s[1] = c THEN 1 ELSE 0

\* what \*{0,2} consumes at the start of s
UpToTwoStars(s) ==
    Let(Span(s, {"*"}), LAMBDA stars : IF stars > 2 THEN 2 ELSE stars)

\* ^(\s*)(B?\*{0,2}\w*B?)\s*(\([^:]*\))?\s*:\s*(.*), B the backtick
\* Every quantifier is greedy and none can give a character back to what
\* follows it, except [^:]*, which gives back up to the last ")" before the
\* first ":"; group 3 is NoneStr when it takes no part in the match.
ARG_INFO_REGEX(line) ==
    Let(Span(line, Whitespace), LAMBDA indent :
    Let(Drop(line, indent), LAMBDA s1 :
    Let(Optional(s1, Backtick), LAMBDA tick1 :
    Let(tick1 + UpToTwoStars(Drop(s1, tick1)), LAMBDA stars_end :
    Let(stars_end + Span(Drop(s1, stars_end), WordChars), LAMBDA word_end :
    Let(word_end + Optional(Drop(s1, word_end), Backtick), LAMBDA name_len :
    Let(Drop(s1, name_len), LAMBDA s5 :
    Let(Drop(s5, Span(s5, Whitespace)), LAMBDA s6 :
    \* the part of s6 before its first ":" (all of it when there is none)
    Let(Find(s6, ":"), LAMBDA colon :
    Let(RFind(IF colon = 0 THEN s6 ELSE Take(s6, colon - 1), ")"), LAMBDA close :
    Let(Len(s6) > 0 /\ s6[1] = "(" /\ close > 0, LAMBDA has_type :
    Let(IF has_type THEN Drop(s6, close) ELSE s6, LAMBDA s7 :
    Let(Drop(s7, Span(s7, Whitespace)), LAMBDA s8 :
        IF Len(s8) > 0 /\ s8[1] = ":"
        THEN [matched |-> TRUE,
              groups |-> <<Take(line, indent),
                           Take(s1, name_len),
                           IF has_type THEN Take(s6, close) ELSE NoneStr,
                           Drop(s8, 1 + Span(Tail(s8), Whitespace))>>]
        ELSE NoMatch)))))))))))))

\* ^(\s*)([^:]*)\s*(:)?\s*(.*) : matches every line
RETURN_INFO_REGEX(line) ==
    Let(Span(line, Whitespace), LAMBDA indent :
    Let(Drop(line, indent), LAMBDA s1 :
    Let(Find(s1, ":"), LAMBDA colon :
    Let(IF colon = 0 THEN <<>> ELSE Drop(s1, colon), LAMBDA s2 :
        [matched |-> TRUE,
         groups |-> <<Take(line, indent),
                      IF colon = 0 THEN s1 ELSE Take(s1, colon - 1),
                      IF colon = 0 THEN NoneStr ELSE <<":">>,
                      Drop(s2, Span(s2, Whitespace))>>]))))

\* ^(\s*)\S+.*
INDENT_REGEX(line) ==
    Let(Span(line, Whitespace), LAMBDA indent :
        IF indent < Len(line)
        THEN [matched |-> TRUE, groups |-> <<Take(line, indent)>>]
        ELSE NoMatch)

RESERVED_ARGS == {<<"s", "e", "l", "f">>, <<"c", "l", "s">>}

(***************************************************************************)
(* DocContext and the diagnostics                                          *)
(***************************************************************************)
\* DocContext(): the fields with their defaults
DocContext ==
    [found_args |-> FALSE,
     found_return |-> FALSE,
     found_description |-> FALSE,
     current_section |-> "DESCRIPTION",
     current_arg |-> 0,
     found_arg_list |-> NoneSet,
     args_indent |-> 0,
     return_indent |-> 0,
     invalid_indents |-> 0,
     first_invalid_indent_line |-> NoneStr]

DocSection == {"DESCRIPTION", "ARGUMENTS", "RETURN_FIRST_LINE", "RETURN_REST", "MISC"}

MESSAGES ==
    [BCS001 |-> "Argument '%s' is missing a type hint.",
     BCS002 |-> "Function '%s' is missing a type hint for the return value.",
     BCS003 |-> "Function '%s' is missing documentation.",
     BCS004 |-> "Argument '%s' documentation is missing the type hint.",
     BCS005 |-> "Argument '%s' type hint doesn't match documentation. expected: '%s', documented as: '%s'.",
     BCS006 |-> "Function '%s' doesn't specify a return type in the documentation. expected: '%s'.",
     BCS007 |-> "Unknown documented argument '%s'.",
     BCS008 |-> "Argument '%s' is missing a description.",
     BCS009 |-> "Argument '%s' is specified more than once.",
     BCS010 |-> "Function '%s' return type hint doesn't match documentation. expected: '%s', documented as: '%s'.",
     BCS011 |-> "Argument '%s' is missing type hint documentation.",
     BCS012 |-> "Function '%s' argument and return documentation has duplicate argument definitions.",
     BCS013 |-> "Function '%s' has documented sections in the wrong order",
     BCS014 |-> "Function '%s' argument and return documentation has duplicate return definitions.",
     BCS015 |-> "Argument '%s' is out of order.",
     BCS016 |-> "Return doc for function '%s' is missing the description.",
     BCS017 |-> "Function '%s' is missing function description documentation.",
     BCS018 |-> "Function '%s' is missing argument documentation.",
     BCS019 |-> "Function '%s' has argument documentation but no arguments.",
     BCS020 |-> "Function '%s' has return documentation but no return type.",
     BCS021 |-> "Function '%s' is missing return documentation.",
     BCS022 |-> "Found '%d' invalid indents starting with line ('%s')."]

\* self.problems.append([node.lineno, node.col_offset, f"{code} - {message}"]);
\* the text MESSAGES[code] % arguments is kept as the template and the tuple
\* of the values that fill it.  n is the positioned ast node.
add_problem(probs, n, code, arguments) ==
    Append(probs, [lineno |-> n.lineno,
                   col_offset |-> n.col_offset,
                   code |-> code,
                   template |-> MESSAGES[code],
                   arguments |-> arguments])

(***************************************************************************)
(* The methods of _Visitor that scan one line.  st is the state a method    *)
(* works on: the DocContext, self.problems and the exception it raised      *)
(* ("" while none was raised); a method returns the state it leaves.        *)
(***************************************************************************)
\* _invalid_indent_found without the test of the counter: every invalid
\* indent is recorded over the one before
_invalid_indent_found_last(line, st) ==
    IF line = NoneStr
    THEN [st EXCEPT !.exception = "AttributeError"]
    ELSE Let(strip(line), LAMBDA stripped :
             [st EXCEPT !.context.first_invalid_indent_line =
                            IF Len(stripped) > 18
                            THEN Take(stripped, 15) \o <<".", ".", ".">>
                            ELSE stripped,
                        !.context.invalid_indents = @ + 1])

\* _invalid_indent_found that keeps no text for a line that is empty once
\* stripped
_invalid_indent_found_nonempty(line, st) ==
    IF st.context.invalid_indents = 0
    THEN IF line = NoneStr
         THEN [st EXCEPT !.exception = "AttributeError"]
         ELSE Let(strip(line), LAMBDA stripped :
                  [st EXCEPT !.context.first_invalid_indent_line =
                                 IF stripped = <<>> THEN @
                                 ELSE IF Len(stripped) > 18
                                 THEN Take(stripped, 15) \o <<".", ".", ".">>
                                 ELSE stripped,
                             !.context.invalid_indents = @ + 1])
    ELSE [st EXCEPT !.context.invalid_indents = @ + 1]

_invalid_indent_found(line, st) ==
    IF st.context.invalid_indents = 0
    THEN IF line = NoneStr
         THEN \* None.strip()
              [st EXCEPT !.exception = "AttributeError"]
         ELSE Let(strip(line), LAMBDA stripped :
                  [st EXCEPT !.context.first_invalid_indent_line =
                                 IF Len(stripped) > 18
                                 THEN Take(stripped, 15) \o <<".", ".", ".">>
                                 ELSE stripped,
                             !.context.invalid_indents = @ + 1])
    ELSE [st EXCEPT !.context.invalid_indents = @ + 1]

\* the 0-based index of the first positional parameter named arg_name
_get_argument_with_name(arg_name, n) ==
    Let({i \in 1..Len(n.args.args) : n.args.args[i].arg = arg_name}, LAMBDA found :
        IF found = {} THEN NoneInt
        ELSE (CHOOSE i \in found : \A j \in found : i <= j) - 1)

\* _annotation_to_doc_str with the branches of names and attribute accesses
\* only
_annotation_to_doc_str_names(annotation) ==
    IF annotation.kind = "Name" THEN annotation.id
    ELSE IF annotation.kind = "Attribute" THEN annotation.attr
    ELSE <<>>

RECURSIVE _annotation_to_doc_str(_)
_annotation_to_doc_str(annotation) ==
    IF annotation.kind = "Name" THEN annotation.id
    ELSE IF annotation.kind = "Attribute" THEN annotation.attr
    ELSE IF annotation.kind = "Subscript"
    THEN IF annotation.value.kind = "Name"
         THEN annotation.value.id \o <<"[">>
              \o (IF annotation.slice.kind = "Index"
                  THEN _annotation_to_doc_str(annotation.slice.value)
                  ELSE _annotation_to_doc_str(annotation.slice))
              \o <<"]">>
         ELSE <<>>
    ELSE IF annotation.kind \in {"List", "Tuple"}
    THEN Let(join(",", [i \in 1..Len(annotation.elts) |->
                           IF annotation.elts[i].kind = "Name"
                           THEN annotation.elts[i].id
                           ELSE _annotation_to_doc_str(annotation.elts[i])]),
             LAMBDA result :
                 IF annotation.kind = "List"
                 THEN <<"[">> \o result \o <<"]">>
                 ELSE result)
    ELSE IF annotation.kind = "Ellipsis" THEN <<".", ".", ".">>
    ELSE <<>>

\* _check_argument_indent that reports the names with a '*' as well
_check_argument_indent_starred(arg_indent, arg_name, arg_index, st, n) ==
    IF Len(arg_indent) = st.context.args_indent
    THEN IF /\ arg_index = NoneInt
            /\ arg_name # NoneStr
            /\ arg_name # <<>>
         THEN [st EXCEPT !.problems = add_problem(@, n, "BCS007", <<arg_name>>)]
         ELSE st
    ELSE IF Len(arg_indent) # st.context.args_indent + 4
         THEN _invalid_indent_found(arg_name, st)
         ELSE st

_check_argument_indent(arg_indent, arg_name, arg_index, st, n) ==
    IF Len(arg_indent) = st.context.args_indent
    THEN IF /\ arg_index = NoneInt
            /\ arg_name # NoneStr
            /\ arg_name # <<>>
            /\ ~startswith(arg_name, <<"*">>)
         THEN [st EXCEPT !.problems = add_problem(@, n, "BCS007", <<arg_name>>)]
         ELSE st
    ELSE IF Len(arg_indent) # st.context.args_indent + 4
         THEN _invalid_indent_found(arg_name, st)
         ELSE st

\* _check_argument_docs for a parameter that has not been documented yet
_check_new_argument_docs(arg_name, arg_type, arg_description, arg_index, st, n) ==
    Let([st EXCEPT !.context.found_arg_list =
            IF @ = NoneSet THEN {arg_index} ELSE @ \cup {arg_index}], LAMBDA st1 :
    Let(IF /\ st1.context.current_arg = 0
           /\ arg_index # st1.context.current_arg
           /\ n.args.args[1].arg \in RESERVED_ARGS
        THEN [st1 EXCEPT !.context.current_arg = 1]
        ELSE st1, LAMBDA st2 :
    Let(IF arg_index # st2.context.current_arg
        THEN [st2 EXCEPT !.problems = add_problem(@, n, "BCS015", <<arg_name>>)]
        ELSE st2, LAMBDA st3 :
    Let(IF arg_type = NoneStr
        THEN [st3 EXCEPT !.problems = add_problem(@, n, "BCS004", <<arg_name>>)]
        ELSE IF n.args.args[arg_index + 1].annotation # NoneNode
        THEN Let(_remove_all_spaces(SubSeq(arg_type, 2, Len(arg_type) - 1)),
                 LAMBDA documented_type :
             Let(_remove_all_spaces(
                     _annotation_to_doc_str(n.args.args[arg_index + 1].annotation)),
                 LAMBDA annotation_doc :
                 IF ~_are_type_strings_same(annotation_doc, documented_type)
                 THEN [st3 EXCEPT !.problems =
                          add_problem(@, n, "BCS005",
                              <<arg_name, annotation_doc, documented_type>>)]
                 ELSE st3))
        ELSE st3, LAMBDA st4 :
        IF arg_description = NoneStr \/ Len(strip(arg_description)) < 2
        THEN IF arg_type = NoneStr
             THEN \* len(None)
                  [st4 EXCEPT !.exception = "TypeError"]
             ELSE IF Len(arg_name) + Len(arg_type) < 70
             THEN [st4 EXCEPT !.problems = add_problem(@, n, "BCS008", <<arg_name>>)]
             ELSE st4
        ELSE st4))))

\* _check_argument_docs without the test for a parameter documented
\* before: a later entry silently replaces the earlier one
_check_argument_docs_overwrite(arg_name, arg_type, arg_description, arg_index, st, n) ==
    _check_new_argument_docs(arg_name, arg_type, arg_description, arg_index, st, n)

\* _check_argument_docs that does not look at the type of the entry
_check_argument_docs_untyped(arg_name, arg_type, arg_description, arg_index, st, n) ==
    IF st.context.found_arg_list # NoneSet /\ arg_index \in st.context.found_arg_list
    THEN [st EXCEPT !.problems = add_problem(@, n, "BCS009", <<arg_name>>)]
    ELSE _check_new_argument_docs(arg_name, NoneStr, arg_description, arg_index, st, n)

_check_argument_docs(arg_name, arg_type, arg_description, arg_index, st, n) ==
    IF st.context.found_arg_list # NoneSet /\ arg_index \in st.context.found_arg_list
    THEN [st EXCEPT !.problems = add_problem(@, n, "BCS009", <<arg_name>>)]
    ELSE _check_new_argument_docs(arg_name, arg_type, arg_description, arg_index, st, n)

\* _check_argument_info that is done with an entry at the continuation
\* indent once its indent is checked
_check_argument_info_nested(regex_matches, st, n) ==
    Let(regex_matches.groups[1], LAMBDA arg_indent :
    Let(IF regex_matches.groups[2] # <<>>
        THEN strip_chars(regex_matches.groups[2], Backtick)
        ELSE NoneStr, LAMBDA arg_name :
    Let(regex_matches.groups[3], LAMBDA arg_type :
    Let(regex_matches.groups[4], LAMBDA arg_description :
    Let(_get_argument_with_name(arg_name, n), LAMBDA arg_index :
    Let(_check_argument_indent(arg_indent, arg_name, arg_index, st, n), LAMBDA st1 :
        IF \/ st1.exception # ""
           \/ arg_index = NoneInt
           \/ Len(arg_indent) = st.context.args_indent + 4
        THEN st1
        ELSE Let(_check_argument_docs(arg_name, arg_type, arg_description,
                                      arg_index, st1, n), LAMBDA st2 :
                 IF st2.exception # "" THEN st2
                 ELSE [st2 EXCEPT !.context.current_arg = arg_index + 1])))))))

\* _check_argument_info that expects the entries one index after the other,
\* whatever index the entry before resolved to
_check_argument_info_counting(regex_matches, st, n) ==
    Let(regex_matches.groups[1], LAMBDA arg_indent :
    Let(IF regex_matches.groups[2] # <<>>
        THEN strip_chars(regex_matches.groups[2], Backtick)
        ELSE NoneStr, LAMBDA arg_name :
    Let(regex_matches.groups[3], LAMBDA arg_type :
    Let(regex_matches.groups[4], LAMBDA arg_description :
    Let(_get_argument_with_name(arg_name, n), LAMBDA arg_index :
    Let(_check_argument_indent(arg_indent, arg_name, arg_index, st, n), LAMBDA st1 :
        IF st1.exception # "" \/ arg_index = NoneInt THEN st1
        ELSE Let(_check_argument_docs(arg_name, arg_type, arg_description,
                                      arg_index, st1, n), LAMBDA st2 :
                 IF st2.exception # "" THEN st2
                 ELSE [st2 EXCEPT !.context.current_arg = @ + 1])))))))

_check_argument_info(regex_matches, st, n) ==
    Let(regex_matches.groups[1], LAMBDA arg_indent :
    Let(IF regex_matches.groups[2] # <<>>
        THEN strip_chars(regex_matches.groups[2], Backtick)
        ELSE NoneStr, LAMBDA arg_name :
    Let(regex_matches.groups[3], LAMBDA arg_type :
    Let(regex_matches.groups[4], LAMBDA arg_description :
    Let(_get_argument_with_name(arg_name, n), LAMBDA arg_index :
    Let(_check_argument_indent(arg_indent, arg_name, arg_index, st, n), LAMBDA st1 :
        IF st1.exception # "" \/ arg_index = NoneInt THEN st1
        ELSE Let(_check_argument_docs(arg_name, arg_type, arg_description,
                                      arg_index, st1, n), LAMBDA st2 :
                 IF st2.exception # "" THEN st2
                 ELSE [st2 EXCEPT !.context.current_arg = arg_index + 1])))))))

_check_return_info(regex_matches, st, n) ==
    Let(regex_matches.groups[1], LAMBDA return_indent :
    Let(regex_matches.groups[3], LAMBDA colon :
    Let(IF Len(return_indent) # st.context.return_indent
        THEN _invalid_indent_found(regex_matches.groups[2], st)
        ELSE st, LAMBDA st1 :
    Let(IF colon = NoneStr THEN regex_matches.groups[2]
        ELSE regex_matches.groups[4], LAMBDA return_description :
    Let(IF colon = NoneStr THEN NoneStr
        ELSE regex_matches.groups[2], LAMBDA documented_type :
    Let(/\ return_description # NoneStr
        /\ Len(strip(return_description)) > 1, LAMBDA has_documentation :
    Let(IF n.returns # NoneNode /\ ~has_documentation
        THEN [st1 EXCEPT !.problems = add_problem(@, n, "BCS016", <<n.name>>)]
        ELSE st1, LAMBDA st2 :
        IF n.returns # NoneNode
        THEN Let(_remove_all_spaces(_annotation_to_doc_str(n.returns)),
                 LAMBDA return_doc :
                 IF documented_type = NoneStr
                 THEN [st2 EXCEPT !.problems =
                          add_problem(@, n, "BCS006", <<n.name, return_doc>>)]
                 ELSE Let(_remove_all_spaces(documented_type), LAMBDA documented :
                          IF ~_are_type_strings_same(return_doc, documented)
                          THEN [st2 EXCEPT !.problems =
                                   add_problem(@, n, "BCS010",
                                       <<n.name, return_doc, documented>>)]
                          ELSE st2))
        ELSE st2)))))))

\* _check_indent that also takes the indent of a line without text
_check_indent_every(expected_indent, line, st) ==
    IF Span(line, Whitespace) # expected_indent
    THEN _invalid_indent_found(line, st)
    ELSE st

_check_indent(expected_indent, line, st) ==
    Let(INDENT_REGEX(line), LAMBDA match :
        IF match.matched /\ Len(match.groups[1]) # expected_indent
        THEN _invalid_indent_found(line, st)
        ELSE st)

\* _check_doc_args, _check_doc_return and _check_doc_misc return a bool:
\* [st |-> the state left, ret |-> the value returned]
\* _check_doc_args that opens the section again on a duplicate header,
\* after reporting it
_check_doc_args_reopen(doc_line, st, n) ==
    Let(ARGS_REGEX(doc_line), LAMBDA match :
        IF match.matched
        THEN [st |-> [st EXCEPT
                         !.problems = IF st.context.found_args
                                      THEN add_problem(@, n, "BCS012", <<n.name>>)
                                      ELSE IF st.context.found_return
                                      THEN add_problem(@, n, "BCS013", <<n.name>>)
                                      ELSE @,
                         !.context.found_args = TRUE,
                         !.context.args_indent = Len(match.groups[1]) + 4,
                         !.context.current_section = "ARGUMENTS"],
              ret |-> TRUE]
        ELSE [st |-> st, ret |-> FALSE])

\* _check_doc_args that does not look at the Returns header seen before
_check_doc_args_unordered(doc_line, st, n) ==
    Let(ARGS_REGEX(doc_line), LAMBDA match :
        IF match.matched
        THEN IF st.context.found_args
             THEN [st |-> [st EXCEPT !.problems =
                              add_problem(@, n, "BCS012", <<n.name>>)],
                   ret |-> FALSE]
             ELSE [st |-> [st EXCEPT
                              !.context.found_args = TRUE,
                              !.context.args_indent = Len(match.groups[1]) + 4,
                              !.context.current_section = "ARGUMENTS"],
                   ret |-> TRUE]
        ELSE [st |-> st, ret |-> FALSE])

_check_doc_args(doc_line, st, n) ==
    Let(ARGS_REGEX(doc_line), LAMBDA match :
        IF match.matched
        THEN IF st.context.found_args
             THEN [st |-> [st EXCEPT !.problems =
                              add_problem(@, n, "BCS012", <<n.name>>)],
                   ret |-> FALSE]
             ELSE [st |-> [st EXCEPT
                              !.problems = IF st.context.found_return
                                           THEN add_problem(@, n, "BCS013", <<n.name>>)
                                           ELSE @,
                              !.context.found_args = TRUE,
                              !.context.args_indent = Len(match.groups[1]) + 4,
                              !.context.current_section = "ARGUMENTS"],
                   ret |-> TRUE]
        ELSE [st |-> st, ret |-> FALSE])

\* _check_doc_return that opens the section again on a duplicate header,
\* after reporting it
_check_doc_return_reopen(doc_line, st, n) ==
    Let(RETURN_REGEX(doc_line), LAMBDA match :
        IF match.matched
        THEN [st |-> [st EXCEPT
                         !.problems = IF st.context.found_return
                                      THEN add_problem(@, n, "BCS014", <<n.name>>)
                                      ELSE @,
                         !.context.found_return = TRUE,
                         !.context.return_indent = Len(match.groups[1]) + 4,
                         !.context.current_section = "RETURN_FIRST_LINE"],
              ret |-> TRUE]
        ELSE [st |-> st, ret |-> FALSE])

_check_doc_return(doc_line, st, n) ==
    Let(RETURN_REGEX(doc_line), LAMBDA match :
        IF match.matched
        THEN IF st.context.found_return
             THEN [st |-> [st EXCEPT !.problems =
                              add_problem(@, n, "BCS014", <<n.name>>)],
                   ret |-> FALSE]
             ELSE [st |-> [st EXCEPT
                              !.context.found_return = TRUE,
                              !.context.return_indent = Len(match.groups[1]) + 4,
                              !.context.current_section = "RETURN_FIRST_LINE"],
                   ret |-> TRUE]
        ELSE [st |-> st, ret |-> FALSE])

\* _check_doc_misc that takes what follows a misc header for description
_check_doc_misc_described(doc_line, st, n) ==
    IF MISC_REGEX(doc_line).matched
    THEN [st |-> [st EXCEPT !.context.current_section = "DESCRIPTION"], ret |-> TRUE]
    ELSE [st |-> st, ret |-> FALSE]

_check_doc_misc(doc_line, st, n) ==
    IF MISC_REGEX(doc_line).matched
    THEN [st |-> [st EXCEPT !.context.current_section = "MISC"], ret |-> TRUE]
    ELSE [st |-> st, ret |-> FALSE]

\* _check_doc_section that waits for a line with text before it takes the
\* first return line
_check_doc_section_skipping(doc_line, st, n) ==
    IF st.context.current_section = "DESCRIPTION"
    THEN IF Len(strip(doc_line)) > 1
         THEN [st EXCEPT !.context.found_description = TRUE]
         ELSE st
    ELSE IF st.context.current_section = "ARGUMENTS"
    THEN Let(ARG_INFO_REGEX(doc_line), LAMBDA matches :
             IF matches.matched
             THEN _check_argument_info(matches, st, n)
             ELSE _check_indent(st.context.args_indent + 4, doc_line, st))
    ELSE IF st.context.current_section = "RETURN_FIRST_LINE"
    THEN IF strip(doc_line) = <<>> THEN st
         ELSE Let(_check_return_info(RETURN_INFO_REGEX(doc_line), st, n),
                  LAMBDA st1 :
                  IF st1.exception # "" THEN st1
                  ELSE [st1 EXCEPT !.context.current_section = "RETURN_REST"])
    ELSE IF st.context.current_section = "RETURN_REST"
    THEN _check_indent(st.context.return_indent, doc_line, st)
    ELSE st

\* _check_doc_section that expects the lines after the first return line
\* one level deeper than it, as the Args section expects continuation lines
_check_doc_section_wrapped(doc_line, st, n) ==
    IF st.context.current_section = "DESCRIPTION"
    THEN IF Len(strip(doc_line)) > 1
         THEN [st EXCEPT !.context.found_description = TRUE]
         ELSE st
    ELSE IF st.context.current_section = "ARGUMENTS"
    THEN Let(ARG_INFO_REGEX(doc_line), LAMBDA matches :
             IF matches.matched
             THEN _check_argument_info(matches, st, n)
             ELSE _check_indent(st.context.args_indent + 4, doc_line, st))
    ELSE IF st.context.current_section = "RETURN_FIRST_LINE"
    THEN Let(_check_return_info(RETURN_INFO_REGEX(doc_line), st, n), LAMBDA st1 :
             IF st1.exception # "" THEN st1
             ELSE [st1 EXCEPT !.context.current_section = "RETURN_REST"])
    ELSE IF st.context.current_section = "RETURN_REST"
    THEN _check_indent(st.context.return_indent + 4, doc_line, st)
    ELSE st

_check_doc_section(doc_line, st, n) ==
    IF st.context.current_section = "DESCRIPTION"
    THEN IF Len(strip(doc_line)) > 1
         THEN [st EXCEPT !.context.found_description = TRUE]
         ELSE st
    ELSE IF st.context.current_section = "ARGUMENTS"
    THEN Let(ARG_INFO_REGEX(doc_line), LAMBDA matches :
             IF matches.matched
             THEN _check_argument_info(matches, st, n)
             ELSE _check_indent(st.context.args_indent + 4, doc_line, st))
    ELSE IF st.context.current_section = "RETURN_FIRST_LINE"
    THEN Let(_check_return_info(RETURN_INFO_REGEX(doc_line), st, n), LAMBDA st1 :
             IF st1.exception # "" THEN st1
             ELSE [st1 EXCEPT !.context.current_section = "RETURN_REST"])
    ELSE IF st.context.current_section = "RETURN_REST"
    THEN _check_indent(st.context.return_indent, doc_line, st)
    ELSE st

\* _check_doc_line that takes the lines of the MISC section for lines of
\* the description
_check_doc_line_described(doc_line, st, n) ==
    Let(_check_doc_args(doc_line, st, n), LAMBDA r1 :
        IF r1.ret THEN r1.st
        ELSE Let(_check_doc_return(doc_line, r1.st, n), LAMBDA r2 :
        IF r2.ret THEN r2.st
        ELSE Let(_check_doc_misc(doc_line, r2.st, n), LAMBDA r3 :
        IF r3.ret THEN r3.st
        ELSE IF r3.st.context.current_section = "MISC"
        THEN _check_doc_section(doc_line,
                 [r3.st EXCEPT !.context.current_section = "DESCRIPTION"], n)
        ELSE _check_doc_section(doc_line, r3.st, n))))

_check_doc_line(doc_line, st, n) ==
    Let(_check_doc_args(doc_line, st, n), LAMBDA r1 :
        IF r1.ret THEN r1.st
        ELSE Let(_check_doc_return(doc_line, r1.st, n), LAMBDA r2 :
        IF r2.ret THEN r2.st
        ELSE Let(_check_doc_misc(doc_line, r2.st, n), LAMBDA r3 :
        IF r3.ret THEN r3.st
        ELSE _check_doc_section(doc_line, r3.st, n))))

(***************************************************************************)
(* The module-level helpers on a function definition                       *)
(***************************************************************************)
\* the value of the first statement that is a string expression, or None
_get_first_doc(n) ==
    Let({i \in 1..Len(n.body) :
            n.body[i].kind = "Expr" /\ n.body[i].value.kind = "Str"}, LAMBDA found :
        IF found = {} THEN NoneNode
        ELSE n.body[CHOOSE i \in found : \A j \in found : i <= j].value)

\* _function_requires_documentation that looks at the name only
_function_requires_documentation_public(n) == ~startswith(n.name, <<"_">>)

_function_requires_documentation(n) ==
    IF startswith(n.name, <<"_">>) THEN FALSE
    ELSE IF Len(n.body) = 0 THEN FALSE
    ELSE \E i \in 1..Len(n.body) : n.body[i].kind \notin {"Expr", "Return", "Raise"}

\* _return_type_requires_documentation that takes the constant None for a
\* type to document
_return_type_requires_documentation_any(n) == n.returns # NoneNode

_return_type_requires_documentation(n) ==
    IF n.returns = NoneNode THEN FALSE
    ELSE IF n.returns.kind = "NameConstant" THEN n.returns.value # "None"
    ELSE TRUE

_function_has_arguments_to_document(n) ==
    IF Len(n.args.args) = 0 THEN FALSE
    ELSE \E i \in 1..Len(n.args.args) : n.args.args[i].arg \notin RESERVED_ARGS

(***************************************************************************)
(* Post-scan verification                                                  *)
(***************************************************************************)
\* _verify_description with the test of found_description inverted
_verify_description_inverted(st, n) ==
    IF st.context.found_description /\ _function_requires_documentation(n)
    THEN [st EXCEPT !.problems = add_problem(@, n, "BCS017", <<n.name>>)]
    ELSE st

_verify_description(st, n) ==
    IF ~st.context.found_description /\ _function_requires_documentation(n)
    THEN [st EXCEPT !.problems = add_problem(@, n, "BCS017", <<n.name>>)]
    ELSE st

_verify_args(st, n) ==
    IF ~st.context.found_args
    THEN IF _function_has_arguments_to_document(n) /\ _function_requires_documentation(n)
         THEN [st EXCEPT !.problems = add_problem(@, n, "BCS018", <<n.name>>)]
         ELSE st
    ELSE IF /\ ~_function_has_arguments_to_document(n)
            /\ n.args.kwarg = NoneNode
            /\ n.args.vararg = NoneNode
    THEN [st EXCEPT !.problems = add_problem(@, n, "BCS019", <<n.name>>)]
    ELSE IF st.context.found_arg_list # NoneSet
    THEN Let(SelectSeq([i \in 1..Len(n.args.args) |-> i - 1],
                 LAMBDA index :
                     /\ index \notin st.context.found_arg_list
                     /\ n.args.args[index + 1].arg \notin RESERVED_ARGS),
             LAMBDA missing :
                 [st EXCEPT !.problems = @ \o
                     [k \in 1..Len(missing) |->
                         [lineno |-> n.lineno,
                          col_offset |-> n.col_offset,
                          code |-> "BCS011",
                          template |-> MESSAGES["BCS011"],
                          arguments |-> <<n.args.args[missing[k] + 1].arg>>]]])
    ELSE st

_verify_return(st, n) ==
    IF st.context.found_return
    THEN IF n.returns = NoneNode
         THEN [st EXCEPT !.problems = add_problem(@, n, "BCS020", <<n.name>>)]
         ELSE st
    ELSE IF _function_requires_documentation(n) /\ _return_type_requires_documentation(n)
         THEN [st EXCEPT !.problems = add_problem(@, n, "BCS021", <<n.name>>)]
         ELSE st

_verify_indents(st, n) ==
    IF st.context.invalid_indents > 0
    THEN [st EXCEPT !.problems =
             add_problem(@, n, "BCS022",
                 <<st.context.invalid_indents, st.context.first_invalid_indent_line>>)]
    ELSE st

\* _verify_context that tallies the indents before the other verifications
_verify_context_tally_first(st, n) ==
    _verify_return(_verify_args(_verify_description(_verify_indents(st, n), n), n), n)

_verify_context(st, n) ==
    _verify_indents(_verify_return(_verify_args(_verify_description(st, n), n), n), n)

(***************************************************************************)
(* The checks on the signature                                             *)
(***************************************************************************)
\* _check_arguments with the test of the annotation inverted: it reports
\* the parameters that have a type hint
_check_arguments_annotated(probs, name, args) ==
    IF startswith(name, <<"_", "_">>) \/ name = <<"_">> THEN probs
    ELSE Let(SelectSeq(args.args,
                 LAMBDA argument :
                     /\ argument.annotation # NoneNode
                     /\ argument.arg \notin RESERVED_ARGS),
             LAMBDA untyped :
                 probs \o [k \in 1..Len(untyped) |->
                              [lineno |-> untyped[k].lineno,
                               col_offset |-> untyped[k].col_offset,
                               code |-> "BCS001",
                               template |-> MESSAGES["BCS001"],
                               arguments |-> <<untyped[k].arg>>]])

\* _check_arguments that skips every function whose name starts with '_'
_check_arguments_private(probs, name, args) ==
    IF startswith(name, <<"_">>) THEN probs
    ELSE Let(SelectSeq(args.args,
                 LAMBDA argument :
                     /\ argument.annotation = NoneNode
                     /\ argument.arg \notin RESERVED_ARGS),
             LAMBDA untyped :
                 probs \o [k \in 1..Len(untyped) |->
                              [lineno |-> untyped[k].lineno,
                               col_offset |-> untyped[k].col_offset,
                               code |-> "BCS001",
                               template |-> MESSAGES["BCS001"],
                               arguments |-> <<untyped[k].arg>>]])

_check_arguments(probs, name, args) ==
    IF startswith(name, <<"_", "_">>) \/ name = <<"_">> THEN probs
    ELSE Let(SelectSeq(args.args,
                 LAMBDA argument :
                     /\ argument.annotation = NoneNode
                     /\ argument.arg \notin RESERVED_ARGS),
             LAMBDA untyped :
                 probs \o [k \in 1..Len(untyped) |->
                              [lineno |-> untyped[k].lineno,
                               col_offset |-> untyped[k].col_offset,
                               code |-> "BCS001",
                               template |-> MESSAGES["BCS001"],
                               arguments |-> <<untyped[k].arg>>]])

_check_return(probs, n) ==
    IF /\ n.returns = NoneNode
       /\ ~startswith(n.name, <<"_", "_">>)
       /\ n.name # <<"_">>
    THEN add_problem(probs, n, "BCS002", <<n.name>>)
    ELSE probs

(***************************************************************************)
(* The inputs: function definitions (ast.FunctionDef) and their docstrings *)
(***************************************************************************)
Name(id) == [kind |-> "Name", id |-> id]

int == <<"i", "n", "t">>

\* ast.arg at column col of line 1
Arg(name, annotation, col) ==
    [kind |-> "arg", arg |-> name, annotation |-> annotation,
     lineno |-> 1, col_offset |-> col]

\* ast.arguments without *args, **kwargs and keyword-only parameters
Arguments(arg_list) ==
    [args |-> arg_list, vararg |-> NoneNode, kwarg |-> NoneNode, kwonlyargs |-> <<>>]

\* the statement that holds the docstring made of the given lines
DocStmt(lines) ==
    [kind |-> "Expr", value |-> [kind |-> "Str", s |-> join("\n", lines)]]

Pass == [kind |-> "Pass"]

\* def name(arguments) -> returns: at line 1, column 0
FunctionDef(name, arguments, returns, body) ==
    [kind |-> "FunctionDef", name |-> name, args |-> arguments,
     returns |-> returns, body |-> body, lineno |-> 1, col_offset |-> 0]

(***************************************************************************)
(* The state machine: one _Visitor visiting one function definition.       *)
(*   pc = "idle"    the visitor is constructed                             *)
(*   pc = "scan"    _check_documentation is in its loop over doc_lines,    *)
(*                  doc_lines[line_no] is the next line                    *)
(*   pc = "done"    visit_FunctionDef has returned                         *)
(*   pc = "raised"  an exception left visit_FunctionDef                    *)
(***************************************************************************)
\* no function is called on its own
NoCall ==
    /\ annotation_node = NoneNode
    /\ doc_str = NoneStr
    /\ type_annotated = NoneStr
    /\ type_documented = NoneStr
    /\ types_same = FALSE

\* no module is walked
NoWalk ==
    /\ module_body = <<>>
    /\ body_no = 0

\* the pylint checker has visited no function
NoChecker ==
    /\ checker_pc = "idle"
    /\ checker_node = NoneNode
    /\ checker_doc_lines = <<>>
    /\ checker_line_no = 0
    /\ checker_context = DocContext
    /\ checker_messages = <<>>

Init ==
    /\ node = NoneNode
    /\ doc_lines = <<>>
    /\ line_no = 0
    /\ context = DocContext
    /\ problems = <<>>
    /\ pc = "idle"
    /\ exception = ""
    /\ NoCall
    /\ NoWalk
    /\ NoChecker

\* _check_documentation that keeps one DocContext for all the functions it
\* is called on
_check_documentation_shared(checked, doc, n) ==
    IF doc = NoneNode
    THEN /\ problems' = IF _function_requires_documentation(n)
                        THEN add_problem(checked, n, "BCS003", <<n.name>>)
                        ELSE checked
         /\ pc' = "done"
         /\ UNCHANGED <<doc_lines, line_no, context>>
    ELSE /\ problems' = checked
         /\ doc_lines' = split(doc.s, "\n")
         /\ context' = context
         /\ line_no' = 1
         /\ pc' = "scan"

\* _check_documentation from the state checked that _check_arguments and
\* _check_return leave, up to the first iteration of its loop
_check_documentation(checked, doc, n) ==
    IF doc = NoneNode
    THEN /\ problems' = IF _function_requires_documentation(n)
                        THEN add_problem(checked, n, "BCS003", <<n.name>>)
                        ELSE checked
         /\ pc' = "done"
         /\ UNCHANGED <<doc_lines, line_no, context>>
    ELSE /\ problems' = checked
         /\ doc_lines' = split(doc.s, "\n")
         /\ context' = DocContext
         /\ line_no' = 1
         /\ pc' = "scan"

\* visit_FunctionDef (generic_visit finds no nested definition)
visit_FunctionDef(n) ==
    /\ pc = "idle"
    /\ node' = n
    /\ _check_documentation(_check_return(_check_arguments(problems, n.name, n.args), n),
                            _get_first_doc(n), n)
    /\ UNCHANGED <<exception, calls, walk, checker>>

\* the state st becomes the visitor's state; an exception ends the visit
Leave(st) ==
    /\ context' = st.context
    /\ problems' = st.problems
    /\ exception' = st.exception
    /\ IF st.exception # ""
       THEN pc' = "raised" /\ line_no' = line_no
       ELSE pc' = "scan" /\ line_no' = line_no + 1

\* one iteration of the loop: self._check_doc_line(doc_line, context, node)
CheckDocLine ==
    /\ pc = "scan"
    /\ line_no <= Len(doc_lines)
    /\ Leave(_check_doc_line(doc_lines[line_no],
                 [context |-> context, problems |-> problems, exception |-> ""],
                 node))
    /\ UNCHANGED <<node, doc_lines, calls, walk, checker>>

\* the state st that verification leaves becomes the visitor's state
Return(st) ==
    /\ context' = st.context
    /\ problems' = st.problems
    /\ pc' = "done"

\* the loop is over: self._verify_context(context, node)
VerifyContext ==
    /\ pc = "scan"
    /\ line_no > Len(doc_lines)
    /\ Return(_verify_context(
                  [context |-> context, problems |-> problems, exception |-> ""],
                  node))
    /\ UNCHANGED <<node, doc_lines, line_no, exception, calls, walk,
                   checker>>

(***************************************************************************)
(* The lines and the functions the specifications draw their inputs from   *)
(***************************************************************************)
\* "Desc."
Line_Desc ==
    <<"D", "e", "s", "c", ".">>

\* "Args:"
Line_Args ==
    <<"A", "r", "g", "s", ":">>

\* "Returns:"
Line_Returns ==
    <<"R", "e", "t", "u", "r", "n", "s", ":">>

\* "Note:"
Line_Note ==
    <<"N", "o", "t", "e", ":">>

\* "    a (int): about a"
Line_a ==
    <<" ", " ", " ", " ", "a", " ", "(", "i", "n", "t", ")", ":", " ", "a",
      "b", "o", "u", "t", " ", "a">>

\* "    b (int): about b"
Line_b ==
    <<" ", " ", " ", " ", "b", " ", "(", "i", "n", "t", ")", ":", " ", "a",
      "b", "o", "u", "t", " ", "b">>

\* "    a:"
Line_a_bare ==
    <<" ", " ", " ", " ", "a", ":">>

\* "    int: the result"
Line_result ==
    <<" ", " ", " ", " ", "i", "n", "t", ":", " ", "t", "h", "e", " ", "r",
      "e", "s", "u", "l", "t">>

\* " : x"
Line_no_name ==
    <<" ", ":", " ", "x">>

\* "  this is slightly indented."
Line_wrapped ==
    <<" ", " ", "t", "h", "i", "s", " ", "i", "s", " ", "s", "l", "i", "g",
      "h", "t", "l", "y", " ", "i", "n", "d", "e", "n", "t", "e", "d", ".">>

\* "  b (int): about b"
Line_b_shallow ==
    <<" ", " ", "b", " ", "(", "i", "n", "t", ")", ":", " ", "a", "b", "o",
      "u", "t", " ", "b">>

\* ""
Line_blank ==
    <<>>

MaxLines == 4

Lines ==
    {Line_Desc, Line_Args, Line_Returns, Line_Note, Line_a, Line_b,
     Line_a_bare, Line_result, Line_no_name, Line_wrapped, Line_b_shallow}

\* def f(a, b: int) -> int:
Fn_f(body) ==
    FunctionDef(<<"f">>,
        Arguments(<<Arg(<<"a">>, NoneNode, 6), Arg(<<"b">>, Name(int), 9)>>),
        Name(int), body)

\* def g(self, a: int) -> int:
Fn_g(body) ==
    FunctionDef(<<"g">>,
        Arguments(<<Arg(<<"s", "e", "l", "f">>, NoneNode, 6),
                    Arg(<<"a">>, Name(int), 12)>>),
        Name(int), body)

\* def h(a: int, b: int) -> int:
Fn_h(body) ==
    FunctionDef(<<"h">>,
        Arguments(<<Arg(<<"a">>, Name(int), 6), Arg(<<"b">>, Name(int), 14)>>),
        Name(int), body)

\* the host hands the visitor one function definition: f without a
\* docstring, or f or g with a docstring of 1 to MaxLines lines of Lines,
\* followed by pass
Visit ==
    /\ pc = "idle"
    /\ \/ visit_FunctionDef(Fn_f(<<Pass>>))
       \/ \E k \in 1..MaxLines : \E d \in [1..k -> Lines] :
             \/ visit_FunctionDef(Fn_f(<<DocStmt(d), Pass>>))
             \/ visit_FunctionDef(Fn_g(<<DocStmt(d), Pass>>))

Next ==
    \/ Visit
    \/ CheckDocLine
    \/ VerifyContext

Spec == Init /\ [][Next]_vars

MaxDocLines == 5

DocLines ==
    {Line_Desc, Line_Args, Line_Returns, Line_a, Line_b, Line_result}

MaxEntryLines == 4

EntryLines ==
    {Line_a, Line_b, Line_Returns, Line_result}

\* the host hands the visitor one documented function definition: f or g
\* with a docstring of 1 to MaxDocLines lines of DocLines, or h with a
\* docstring that is an optional description line, the Args header and 1 to
\* MaxEntryLines lines of EntryLines
VisitDocumented ==
    /\ pc = "idle"
    /\ \/ \E k \in 1..MaxDocLines : \E d \in [1..k -> DocLines] :
             \/ visit_FunctionDef(Fn_f(<<DocStmt(d), Pass>>))
             \/ visit_FunctionDef(Fn_g(<<DocStmt(d), Pass>>))
       \/ \E k \in 1..MaxEntryLines : \E d \in [1..k -> EntryLines] :
             \E head \in {<<>>, <<Line_Desc>>} :
                visit_FunctionDef(Fn_h(<<DocStmt(head \o <<Line_Args>> \o d), Pass>>))

NextDocumented ==
    \/ VisitDocumented
    \/ CheckDocLine
    \/ VerifyContext

SpecDocumented == Init /\ [][NextDocumented]_vars

(***************************************************************************)
(* What the properties are stated with                                     *)
(***************************************************************************)
\* visit_FunctionDef has returned or raised
Terminal == pc \in {"done", "raised"}

\* the loop of _check_documentation is about to scan doc_lines[line_no]
Scanning == pc = "scan" /\ line_no <= Len(doc_lines)

\* the lines of the docstring that match each header pattern
ArgsHeaders == {i \in DOMAIN doc_lines : ARGS_REGEX(doc_lines[i]).matched}

ReturnHeaders == {i \in DOMAIN doc_lines : RETURN_REGEX(doc_lines[i]).matched}

MiscHeaders == {i \in DOMAIN doc_lines : MISC_REGEX(doc_lines[i]).matched}

Min(S) == CHOOSE i \in S : \A j \in S : i <= j

\* the number of diagnostics with this code
Count(code) ==
    Cardinality({i \in DOMAIN problems : problems[i].code = code})

\* the number of diagnostics with this code that name this parameter
CountFor(code, name) ==
    Cardinality({i \in DOMAIN problems :
                    problems[i].code = code /\ problems[i].arguments[1] = name})

\* the codes of the diagnostics that name a parameter first
ParameterCodes ==
    {"BCS001", "BCS004", "BCS005", "BCS007", "BCS008", "BCS009", "BCS011", "BCS015"}

\* the number of diagnostics about this parameter
CountAbout(name) ==
    Cardinality({i \in DOMAIN problems :
                    /\ problems[i].code \in ParameterCodes
                    /\ problems[i].arguments[1] = name})

\* the line being scanned opens a section: it is the first Args header or
\* the first Returns/Yields header, or a header of the MISC section
OpensSection ==
    \/ ARGS_REGEX(doc_lines[line_no]).matched /\ ~context.found_args
    \/ RETURN_REGEX(doc_lines[line_no]).matched /\ ~context.found_return
    \/ MISC_REGEX(doc_lines[line_no]).matched

\* the name of the entry the line being scanned holds, <<>> when it has none
EntryName ==
    Let(ARG_INFO_REGEX(doc_lines[line_no]), LAMBDA m :
        IF m.matched THEN strip_chars(m.groups[2], Backtick) ELSE <<>>)

\* the index of the parameter that the line being scanned documents as an
\* entry of the Args section, NoneInt when it documents none
EntryIndex ==
    IF /\ context.current_section = "ARGUMENTS"
       /\ ~OpensSection
       /\ ARG_INFO_REGEX(doc_lines[line_no]).matched
       /\ EntryName # <<>>
    THEN _get_argument_with_name(EntryName, node)
    ELSE NoneInt

\* line as the aggregate indent diagnostic carries it
Cut(line) ==
    Let(strip(line), LAMBDA stripped :
        IF Len(stripped) > 18 THEN Take(stripped, 15) \o <<".", ".", ".">>
        ELSE stripped)

\* the diagnostics that verification leaves obey the count of invalid
\* indents k: none for k = 0, one BCS022 carrying k and the first line for more
AggregateIndentDiagnostic ==
    IF context.invalid_indents = 0
    THEN Count("BCS022") = 0
    ELSE /\ Count("BCS022") = 1
         /\ \E i \in DOMAIN problems :
               /\ problems[i].code = "BCS022"
               /\ problems[i].arguments =
                      <<context.invalid_indents, context.first_invalid_indent_line>>

(***************************************************************************)
(* The checker and exceptions                                              *)
(***************************************************************************)
\* C1: the checker never raises: every visit runs the line scan and the
\* verification to completion, whatever the lines of the docstring are
NeverRaises == exception = ""

(***************************************************************************)
(* Parameters missing from the Args section                                *)
(***************************************************************************)
\* the indexes of the parameters that entries of the Args section resolved to
Resolved ==
    IF context.found_arg_list = NoneSet THEN {} ELSE context.found_arg_list

\* C2: when the verification of a docstring with an Args section is over,
\* every parameter other than self and cls that no entry resolved to is
\* named by exactly one BCS011, and every other parameter by none; also
\* when no entry resolved to any parameter
C2_MissingDocumentation ==
    pc = "done" /\ context.found_args =>
        \A i \in 1..Len(node.args.args) :
            CountFor("BCS011", node.args.args[i].arg) =
                IF /\ node.args.args[i].arg \notin RESERVED_ARGS
                   /\ (i - 1) \notin Resolved
                THEN 1
                ELSE 0

(***************************************************************************)
(* Documented functions                                                    *)
(***************************************************************************)
\* the 0-based indexes of the parameters other than self and cls
Documentable ==
    SelectSeq([i \in 1..Len(node.args.args) |-> i - 1],
        LAMBDA i : node.args.args[i + 1].arg \notin RESERVED_ARGS)

\* line i is an entry for the annotated parameter of index p, with a
\* parenthesized type equivalent to the rendered annotation and a
\* description of at least min characters
Documents(i, p, min) ==
    Let(ARG_INFO_REGEX(doc_lines[i]), LAMBDA m :
        /\ m.matched
        /\ strip_chars(m.groups[2], Backtick) = node.args.args[p + 1].arg
        /\ m.groups[3] # NoneStr
        /\ node.args.args[p + 1].annotation # NoneNode
        /\ _are_type_strings_same(
               _remove_all_spaces(
                   _annotation_to_doc_str(node.args.args[p + 1].annotation)),
               _remove_all_spaces(SubSeq(m.groups[3], 2, Len(m.groups[3]) - 1)))
        /\ Len(strip(m.groups[4])) >= min)

\* line i documents a return type equivalent to the rendered return
\* annotation, with a description of at least min characters
DocumentsReturn(i, min) ==
    Let(RETURN_INFO_REGEX(doc_lines[i]), LAMBDA m :
        /\ m.matched
        /\ m.groups[3] # NoneStr
        /\ node.returns # NoneNode
        /\ _are_type_strings_same(
               _remove_all_spaces(_annotation_to_doc_str(node.returns)),
               _remove_all_spaces(m.groups[2]))
        /\ Len(strip(m.groups[4])) >= min)

\* the number of whitespace characters line i starts with
Indent(i) == Span(doc_lines[i], Whitespace)

\* every parameter is documented after the Args header in declaration
\* order, with its type and a non-empty description, and the line after
\* the Returns header documents the return type
FullyDocumented ==
    /\ Len(Documentable) >= 1
    /\ ArgsHeaders # {}
    /\ ReturnHeaders # {}
    /\ \A k \in 1..Len(Documentable) :
          /\ Min(ArgsHeaders) + k <= Len(doc_lines)
          /\ Documents(Min(ArgsHeaders) + k, Documentable[k], 1)
    /\ Min(ReturnHeaders) + 1 <= Len(doc_lines)
    /\ DocumentsReturn(Min(ReturnHeaders) + 1, 0)

\* FullyDocumented, and the docstring is nothing but: lines that are no
\* header, one of them of more than one character; the Args header; the
\* entries at the indent of the header plus 4, each with a description of at
\* least two characters; the Returns header; the return line at the indent
\* of that header plus 4, with a description of at least two characters
WellDocumented ==
    /\ FullyDocumented
    /\ Len(doc_lines) = Min(ArgsHeaders) + Len(Documentable) + 2
    /\ \A i \in 1..(Min(ArgsHeaders) - 1) :
          i \notin ReturnHeaders \cup MiscHeaders
    /\ \E i \in 1..(Min(ArgsHeaders) - 1) : Len(strip(doc_lines[i])) > 1
    /\ \A k \in 1..Len(Documentable) :
          /\ Documents(Min(ArgsHeaders) + k, Documentable[k], 2)
          /\ Indent(Min(ArgsHeaders) + k) = Indent(Min(ArgsHeaders)) + 4
    /\ Len(doc_lines) - 1 \in ReturnHeaders
    /\ DocumentsReturn(Len(doc_lines), 2)
    /\ Indent(Len(doc_lines)) = Indent(Len(doc_lines) - 1) + 4

OnlyBDocumented ==
    /\ pc = "done"
    /\ node.name = <<"f">>
    /\ doc_lines = <<Line_Desc, Line_Args, Line_b, Line_Returns, Line_result>>

\* C4 as the specification states it: the only diagnostic about a is one
\* BCS011, and there is none about b
C4_OnlyMissingDocumentation ==
    OnlyBDocumented =>
        /\ CountAbout(<<"a">>) = 1
        /\ CountFor("BCS011", <<"a">>) = 1
        /\ CountAbout(<<"b">>) = 0

\* C4: the diagnostics are, in this order, BCS001 for the missing type
\* hint of a, BCS015 for b, documented where a was expected, and BCS011 for
\* the missing documentation of a: exactly one BCS011, naming a
C4_Diagnostics ==
    OnlyBDocumented =>
        [i \in DOMAIN problems |-> <<problems[i].code, problems[i].arguments>>]
            = << <<"BCS001", <<(<<"a">>)>> >>,
                 <<"BCS015", <<(<<"b">>)>> >>,
                 <<"BCS011", <<(<<"a">>)>> >> >>

\* the scenario has been verified and a is reported as undocumented
C4_Witness ==
    OnlyBDocumented /\ CountFor("BCS011", <<"a">>) = 1

(***************************************************************************)
(* Parameters documented more than once                                    *)
(***************************************************************************)
\* C5: an entry that resolves to a parameter documented before appends
\* exactly one BCS009 naming it and leaves the documented set as it is, and
\* when verification is over no BCS011 names a parameter of that set
C5_Duplicates ==
    [][/\ (Scanning /\ EntryIndex # NoneInt /\ EntryIndex \in Resolved
              => /\ problems' = add_problem(problems, node, "BCS009", <<EntryName>>)
                 /\ context'.found_arg_list = context.found_arg_list)
       /\ (pc = "scan" /\ pc' = "done"
              => \A i \in 1..Len(node.args.args) :
                    (i - 1) \in Resolved' =>
                        CountFor("BCS011", node.args.args[i].arg)' = 0)]_vars

\* b has been documented twice: reported once as a duplicate, not as missing
C5_Witness ==
    /\ pc = "done"
    /\ CountFor("BCS009", <<"b">>) = 1
    /\ CountFor("BCS011", <<"b">>) = 0
    /\ Resolved = {1}

(***************************************************************************)
(* The MISC section                                                        *)
(***************************************************************************)
\* C6 as the specification states it: once in MISC the scanner stays in
\* MISC, whatever the later lines are
C6_MiscIsTerminal ==
    [][pc = "scan" /\ context.current_section = "MISC"
          => context'.current_section = "MISC"]_vars

\* C6: once in MISC the scanner stays in MISC, except that the first line
\* matching the Args header moves it to ARGUMENTS and the first line
\* matching the Returns/Yields header moves it to RETURN_FIRST_LINE
C6_MiscUntilFirstHeader ==
    [][Scanning /\ context.current_section = "MISC"
          => context'.current_section =
                IF ARGS_REGEX(doc_lines[line_no]).matched /\ ~context.found_args
                THEN "ARGUMENTS"
                ELSE IF /\ RETURN_REGEX(doc_lines[line_no]).matched
                        /\ ~context.found_return
                THEN "RETURN_FIRST_LINE"
                ELSE "MISC"]_vars

\* the scanner is in MISC after a line that follows the MISC header and is
\* itself an Args header, the second of the docstring
C6_Witness ==
    /\ pc = "scan"
    /\ line_no = 4
    /\ context.current_section = "MISC"
    /\ doc_lines[1] = Line_Args
    /\ doc_lines[2] = Line_Note
    /\ doc_lines[3] = Line_Args

(***************************************************************************)
(* The aggregate indent diagnostic                                         *)
(***************************************************************************)
\* C7 as the specification states it: the aggregate diagnostic carries the
\* count of invalid indents and the text of the first offending line,
\* stripped and cut, whichever kind of line it is
C7_CarriesFirstLine ==
    [][/\ (Scanning /\ context.invalid_indents = 0 /\ context'.invalid_indents > 0
              => context'.first_invalid_indent_line = Cut(doc_lines[line_no]))
       /\ (pc = "scan" /\ pc' = "done" => AggregateIndentDiagnostic')]_vars

\* what the first offending line is recorded as: the name of an entry of
\* the Args section, what precedes the colon of the first return line (the
\* line when it has no colon), and the line itself otherwise
Offender ==
    IF /\ context.current_section = "ARGUMENTS"
       /\ ARG_INFO_REGEX(doc_lines[line_no]).matched
    THEN EntryName
    ELSE IF context.current_section = "RETURN_FIRST_LINE"
    THEN RETURN_INFO_REGEX(doc_lines[line_no]).groups[2]
    ELSE doc_lines[line_no]

\* C7: each line counts as at most one invalid indent; the first one is
\* recorded, stripped and cut, as the name of the entry, as what precedes
\* the colon of the first return line, or as the line itself for the other
\* lines; later ones leave the record alone; and verification emits no
\* BCS022 for a count of 0 and else exactly one, with the count and the record
C7_CarriesFirstOffender ==
    [][/\ (Scanning /\ pc' = "scan" =>
              /\ context'.invalid_indents \in
                     {context.invalid_indents, context.invalid_indents + 1}
              /\ context.invalid_indents = 0 /\ context'.invalid_indents > 0
                    => context'.first_invalid_indent_line = Cut(Offender)
              /\ context.invalid_indents > 0
                    => context'.first_invalid_indent_line =
                           context.first_invalid_indent_line)
       /\ (pc = "scan" /\ pc' = "done" => AggregateIndentDiagnostic')]_vars

\* two invalid indents have been reported, the first of them an entry
\* recorded by its name
C7_Witness ==
    /\ pc = "done"
    /\ Len(doc_lines) >= 2
    /\ doc_lines[2] = Line_b_shallow
    /\ \E i \in DOMAIN problems :
          /\ problems[i].code = "BCS022"
          /\ problems[i].arguments = <<2, <<"b">> >>

(***************************************************************************)
(* The headers of the Args and Returns sections                            *)
(***************************************************************************)
\* C8: when the visit is over there is one BCS013 if a line matching the
\* Returns/Yields header precedes the first line matching the Args header,
\* and none otherwise
C8_WrongOrderOnce ==
    Terminal =>
        Count("BCS013") =
            IF /\ ArgsHeaders # {}
               /\ \E j \in ReturnHeaders : j < Min(ArgsHeaders)
            THEN 1
            ELSE 0

\* a docstring with the Returns header before the Args header has been
\* verified and reported once
C8_Witness ==
    /\ pc = "done"
    /\ ArgsHeaders # {}
    /\ \E j \in ReturnHeaders : j < Min(ArgsHeaders)
    /\ Cardinality(ArgsHeaders) >= 2
    /\ Count("BCS013") = 1

\* n - 1, and 0 when n is 0
Repeats(n) == IF n = 0 THEN 0 ELSE n - 1

\* C9: when the visit is over there is one BCS012 for each line matching
\* the Args header but the first, and one BCS014 for each line matching
\* the Returns/Yields header but the first
C9_DuplicateHeaders ==
    Terminal =>
        /\ Count("BCS012") = Repeats(Cardinality(ArgsHeaders))
        /\ Count("BCS014") = Repeats(Cardinality(ReturnHeaders))

\* the number of whitespace characters the line being scanned starts with
LineIndent == Span(doc_lines[line_no], Whitespace)

\* C10 as the specification states it: every line matching a header leaves
\* the scanner in the section of that header, with the indent recorded
\* from that line, duplicates included
C10_EveryHeaderOpensItsSection ==
    [][/\ (Scanning /\ ARGS_REGEX(doc_lines[line_no]).matched
              => /\ context'.current_section = "ARGUMENTS"
                 /\ context'.args_indent = LineIndent + 4)
       /\ (Scanning /\ RETURN_REGEX(doc_lines[line_no]).matched
              => /\ context'.current_section = "RETURN_FIRST_LINE"
                 /\ context'.return_indent = LineIndent + 4)]_vars

\* the section a line that opens none leaves the scanner in
SectionAfterContent ==
    IF context.current_section = "RETURN_FIRST_LINE"
    THEN "RETURN_REST"
    ELSE context.current_section

\* the indent of a duplicate header is an invalid indent of the section
\* that is current: its lines are expected at the recorded indent (in
\* ARGUMENTS, also at 4 more)
HeaderIndentInvalid ==
    \/ /\ context.current_section = "ARGUMENTS"
       /\ LineIndent \notin {context.args_indent, context.args_indent + 4}
    \/ /\ context.current_section \in {"RETURN_FIRST_LINE", "RETURN_REST"}
       /\ LineIndent # context.return_indent

\* a duplicate header reports code and then is a content line of the
\* section that is current: the recorded indents stay, the section changes
\* as after any content line, and its indent is checked
DuplicateHeader(code) ==
    /\ Len(problems') > Len(problems)
    /\ SubSeq(problems', 1, Len(problems) + 1) =
           add_problem(problems, node, code, <<node.name>>)
    /\ context'.args_indent = context.args_indent
    /\ context'.return_indent = context.return_indent
    /\ context'.current_section = SectionAfterContent
    /\ context'.invalid_indents =
           context.invalid_indents + (IF HeaderIndentInvalid THEN 1 ELSE 0)

\* C10: the first line matching the Args header leaves the scanner in
\* ARGUMENTS and the first line matching the Returns/Yields header leaves
\* it in RETURN_FIRST_LINE, with the indent of the line plus 4 recorded; a
\* later line matching a header is reported as a duplicate and is then
\* processed as a content line of the section that is current
C10_FirstHeaderOpensItsSection ==
    [][/\ (Scanning /\ ARGS_REGEX(doc_lines[line_no]).matched
              => IF context.found_args
                 THEN DuplicateHeader("BCS012")
                 ELSE /\ context'.current_section = "ARGUMENTS"
                      /\ context'.args_indent = LineIndent + 4
                      /\ context'.found_args)
       /\ (Scanning /\ RETURN_REGEX(doc_lines[line_no]).matched
              => IF context.found_return
                 THEN DuplicateHeader("BCS014")
                 ELSE /\ context'.current_section = "RETURN_FIRST_LINE"
                      /\ context'.return_indent = LineIndent + 4
                      /\ context'.found_return)]_vars

\* a second Returns header has been taken as the first line of the
\* Returns section, with an invalid indent
C10_Witness ==
    /\ pc = "scan"
    /\ line_no = 3
    /\ doc_lines[1] = Line_Returns
    /\ doc_lines[2] = Line_Returns
    /\ context.current_section = "RETURN_REST"
    /\ context.invalid_indents = 1
    /\ Count("BCS014") = 1

(***************************************************************************)
(* _annotation_to_doc_str called on its own: annotation nodes of the ast   *)
(* module (flake8 plugin) and of astroid (pylint checker).                 *)
(***************************************************************************)
\* ast.Attribute: value.attr
Attribute(value, attr) == [kind |-> "Attribute", value |-> value, attr |-> attr]

\* ast.Index, the wrapper of a subscript's slice before Python 3.9
Index(value) == [kind |-> "Index", value |-> value]

\* ast.Subscript: value[slice]
Subscript(value, slice) == [kind |-> "Subscript", value |-> value, slice |-> slice]

\* ast.List: [elts]
List(elts) == [kind |-> "List", elts |-> elts]

\* ast.Tuple: elts without brackets
Tuple(elts) == [kind |-> "Tuple", elts |-> elts]

\* ast.Ellipsis: ...
Ellipsis == [kind |-> "Ellipsis"]

\* ast.BinOp such as a | b, ast.Call such as f(), a string constant and
\* the constant None: kinds the renderer has no branch for
BinOp == [kind |-> "BinOp"]
Call == [kind |-> "Call"]
Str == [kind |-> "Str", s |-> int]
NameConstant == [kind |-> "NameConstant", value |-> "None"]

\* the pylint checker's _annotation_to_doc_str that renders a constant by
\* the text of its value
BraketCheckstyleChecker_annotation_to_doc_str_const(annotation) ==
    IF annotation.kind = "Const" THEN <<annotation.value>> ELSE <<>>

\* the pylint checker's _annotation_to_doc_str, on astroid nodes: a Name
\* holds name, an Attribute attrname, a Subscript its slice unwrapped, and
\* the ellipsis is a Const whose value is Ellipsis
RECURSIVE BraketCheckstyleChecker_annotation_to_doc_str(_)
BraketCheckstyleChecker_annotation_to_doc_str(annotation) ==
    IF annotation.kind = "Name" THEN annotation.name
    ELSE IF annotation.kind = "Attribute" THEN annotation.attrname
    ELSE IF annotation.kind = "Subscript"
    THEN IF annotation.value.kind = "Name"
         THEN annotation.value.name \o <<"[">>
              \o BraketCheckstyleChecker_annotation_to_doc_str(annotation.slice)
              \o <<"]">>
         ELSE <<>>
    ELSE IF annotation.kind \in {"List", "Tuple"}
    THEN Let(join(",", [i \in 1..Len(annotation.elts) |->
                           IF annotation.elts[i].kind = "Name"
                           THEN annotation.elts[i].name
                           ELSE BraketCheckstyleChecker_annotation_to_doc_str(
                                    annotation.elts[i])]),
             LAMBDA result :
                 IF annotation.kind = "List"
                 THEN <<"[">> \o result \o <<"]">>
                 ELSE result)
    ELSE IF annotation.kind = "Const"
    THEN IF annotation.value = "Ellipsis" THEN <<".", ".", ".">> ELSE <<>>
    ELSE <<>>

\* astroid nodes
AstroidName(name) == [kind |-> "Name", name |-> name]
AstroidAttribute(expr, attrname) ==
    [kind |-> "Attribute", expr |-> expr, attrname |-> attrname]
AstroidSubscript(value, slice) ==
    [kind |-> "Subscript", value |-> value, slice |-> slice]
AstroidList(elts) == [kind |-> "List", elts |-> elts]
AstroidTuple(elts) == [kind |-> "Tuple", elts |-> elts]
Const(value) == [kind |-> "Const", value |-> value]
AstroidBinOp == [kind |-> "BinOp"]
AstroidCall == [kind |-> "Call"]

\* the depth of the annotation trees and the length of their lists and tuples
MaxDepth == 2
MaxElts == 3

\* the trees of depth 0: a name, an attribute access and the ellipsis
Atoms == {Name(int), Attribute(Name(<<"a">>), <<"B">>), Ellipsis}

\* the element lists of at most MaxElts elements: one of the given trees at
\* any position, the name int at the others
ElementLists(trees) ==
    {<<>>} \cup
    UNION {UNION {{[i \in 1..k |-> IF i = p THEN t ELSE Name(int)] : t \in trees} :
                  p \in 1..k} :
           k \in 1..MaxElts}

\* the annotation trees of depth at most depth, built from names, attribute
\* accesses, subscripts of the name L (slice wrapped in Index or not), lists,
\* tuples and the ellipsis
RECURSIVE Trees(_)
Trees(depth) ==
    IF depth = 0 THEN Atoms
    ELSE Let(Trees(depth - 1), LAMBDA trees :
             Atoms
             \cup {Subscript(Name(<<"L">>), Index(t)) : t \in trees}
             \cup {Subscript(Name(<<"L">>), t) : t \in trees}
             \cup {List(elts) : elts \in ElementLists(trees)}
             \cup {Tuple(elts) : elts \in ElementLists(trees)})

\* annotations the flake8 renderer has no branch for: other kinds of node,
\* and subscripts whose container is not a name (a.B[int], L[int][int])
Unsupported ==
    {BinOp, Call, Str, NameConstant,
     Subscript(Attribute(Name(<<"a">>), <<"B">>), Name(int)),
     Subscript(Attribute(Name(<<"a">>), <<"B">>), Index(Name(int))),
     Subscript(Subscript(Name(<<"L">>), Name(int)), Name(int)),
     Subscript(Name(<<"L">>), BinOp),
     Tuple(<<Name(int), BinOp>>)}

\* astroid annotations: int, a.B, L[int], [int,a.B], (int,...), ..., and
\* nodes the pylint renderer has no branch for
AstroidAnnotations ==
    {AstroidName(int),
     AstroidAttribute(AstroidName(<<"a">>), <<"B">>),
     AstroidSubscript(AstroidName(<<"L">>), AstroidName(int)),
     AstroidList(<<AstroidName(int), AstroidAttribute(AstroidName(<<"a">>), <<"B">>)>>),
     AstroidTuple(<<AstroidName(int), Const("Ellipsis")>>),
     Const("Ellipsis"),
     Const("None"), Const("str"), AstroidBinOp, AstroidCall,
     AstroidSubscript(AstroidAttribute(AstroidName(<<"a">>), <<"B">>), AstroidName(int))}

\* the renderer is about to be called on an annotation
InitRender ==
    /\ node = NoneNode
    /\ doc_lines = <<>>
    /\ line_no = 0
    /\ context = DocContext
    /\ problems = <<>>
    /\ exception = ""
    /\ doc_str = NoneStr
    /\ type_annotated = NoneStr
    /\ type_documented = NoneStr
    /\ types_same = FALSE
    /\ NoWalk
    /\ NoChecker
    /\ \/ pc = "render" /\ annotation_node \in Trees(MaxDepth) \cup Unsupported
       \/ pc = "render_pylint" /\ annotation_node \in AstroidAnnotations

\* self._annotation_to_doc_str(annotation) of the flake8 plugin, called a
\* first and a second time on the same node; no statement of it raises
Render ==
    /\ pc \in {"render", "rendered"}
    /\ doc_str' = _annotation_to_doc_str(annotation_node)
    /\ pc' = IF pc = "render" THEN "rendered" ELSE "rendered_again"
    /\ UNCHANGED <<node, doc_lines, line_no, context, problems, exception,
                   annotation_node, type_annotated, type_documented, types_same,
                   walk, checker>>

\* self._annotation_to_doc_str(annotation) of the pylint checker
RenderPylint ==
    /\ pc = "render_pylint"
    /\ doc_str' = BraketCheckstyleChecker_annotation_to_doc_str(annotation_node)
    /\ pc' = "rendered_pylint"
    /\ UNCHANGED <<node, doc_lines, line_no, context, problems, exception,
                   annotation_node, type_annotated, type_documented, types_same,
                   walk, checker>>

NextRender ==
    \/ Render
    \/ RenderPylint

SpecRender == InitRender /\ [][NextRender]_vars

\* the flake8 renderer has returned
Rendered == pc \in {"rendered", "rendered_again"}

\* the kinds the renderer has a branch for
RenderedKinds == {"Name", "Attribute", "Subscript", "List", "Tuple", "Ellipsis"}

\* the reference rendering of a supported tree
RECURSIVE Reference(_)
RECURSIVE JoinReference(_)
Reference(tree) ==
    CASE tree.kind = "Name" -> tree.id
      [] tree.kind = "Attribute" -> tree.attr
      [] tree.kind = "Index" -> Reference(tree.value)
      [] tree.kind = "Subscript" ->
             tree.value.id \o <<"[">> \o Reference(tree.slice) \o <<"]">>
      [] tree.kind = "Tuple" -> JoinReference(tree.elts)
      [] tree.kind = "List" -> <<"[">> \o JoinReference(tree.elts) \o <<"]">>
      [] tree.kind = "Ellipsis" -> <<".", ".", ".">>

JoinReference(elts) ==
    IF elts = <<>> THEN <<>>
    ELSE IF Len(elts) = 1 THEN Reference(elts[1])
    ELSE Reference(elts[1]) \o <<",">> \o JoinReference(Tail(elts))

\* a tree built from the supported kinds only, subscripts with a name as
\* container
RECURSIVE Supported(_)
Supported(tree) ==
    CASE tree.kind \in {"Name", "Attribute", "Ellipsis"} -> TRUE
      [] tree.kind = "Index" -> Supported(tree.value)
      [] tree.kind = "Subscript" ->
             tree.value.kind = "Name" /\ Supported(tree.slice)
      [] tree.kind \in {"List", "Tuple"} ->
             \A i \in 1..Len(tree.elts) : Supported(tree.elts[i])
      [] OTHER -> FALSE

\* C15: for every annotation tree of bounded depth built from names,
\* attribute accesses, subscripts with a name as container, lists, tuples and
\* the ellipsis, the renderer returns the reference rendering, on the first
\* call and on the second call on the same node.
C15_RendersReference ==
    (Rendered /\ Supported(annotation_node))
        => doc_str = Reference(annotation_node)

\* [int,L[a.B]] was rendered twice: a list that holds a name and a subscript
\* of an attribute access
C15_Witness ==
    /\ pc = "rendered_again"
    /\ annotation_node =
           List(<<Name(int),
                  Subscript(Name(<<"L">>), Index(Attribute(Name(<<"a">>), <<"B">>)))>>)
    /\ doc_str = <<"[", "i", "n", "t", ",", "L", "[", "B", "]", "]">>

\* C13: rendering a subscript whose container is not a name (a.B[int],
\* L[int][int]) raises NotImplementedError in the flake8 renderer; it does
\* not return a string.
C13_OtherContainerRaises ==
    (/\ Rendered
     /\ annotation_node.kind = "Subscript"
     /\ annotation_node.value.kind # "Name")
        => (exception = "NotImplementedError" /\ doc_str = NoneStr)

(***************************************************************************)
(* The types of a docstring against the annotations: the comparison called *)
(* on its own, and visits of functions whose annotations are subscripts or *)
(* of a kind the renderer has no branch for.                               *)
(***************************************************************************)
\* annotated and documented types as they reach the comparison's call
\* sites, before whitespace is removed
TypeStrings ==
    {<<"i", "n", "t">>,
     <<"a", ".", "i", "n", "t">>,
     <<"a", ".", "b", ".", "i", "n", "t">>,
     <<"i", " ", "n", "t">>,
     <<" ", "i", "n", "t", " ">>,
     <<>>,
     <<"i", "n", "t", ".">>,
     <<".", "i", "n", "t">>,
     <<".">>,
     <<"x">>,
     <<"x", ".">>,
     <<"L", "i", "s", "t", "[", "i", "n", "t", "]">>,
     <<"L", "i", "s", "t", "[", " ", "i", "n", "t", "]">>,
     <<"t", "y", "p", "i", "n", "g", ".", "L", "i", "s", "t", "[", "i", "n", "t", "]">>,
     <<"L", "i", "s", "t", "[", "s", "t", "r", "]">>,
     <<"t", "y", "p", "i", "n", "g", ".", " ", "L", "i", "s", "t", "[", "i", "n", "t", "]">>}

\* the comparison is about to be called on a pair of types
InitCompare ==
    /\ node = NoneNode
    /\ doc_lines = <<>>
    /\ line_no = 0
    /\ context = DocContext
    /\ problems = <<>>
    /\ exception = ""
    /\ annotation_node = NoneNode
    /\ doc_str = NoneStr
    /\ types_same = FALSE
    /\ pc = "compare"
    /\ NoWalk
    /\ NoChecker
    /\ type_annotated \in TypeStrings
    /\ type_documented \in TypeStrings

\* _are_type_strings_same as _check_argument_docs and _check_return_info
\* call it: on both types with all whitespace removed
Compare ==
    /\ pc = "compare"
    /\ types_same' = _are_type_strings_same(_remove_all_spaces(type_annotated),
                                            _remove_all_spaces(type_documented))
    /\ pc' = "compared"
    /\ UNCHANGED <<node, doc_lines, line_no, context, problems, exception,
                   annotation_node, doc_str, type_annotated, type_documented,
                   walk, checker>>

\* "    a (List[int]): about a"
Line_l_a ==
    <<" ", " ", " ", " ", "a", " ", "(", "L", "i", "s", "t", "[", "i", "n",
      "t", "]", ")", ":", " ", "a", "b", "o", "u", "t", " ", "a">>

\* "    a (List[ int]): about a"
Line_l_a_spaced ==
    <<" ", " ", " ", " ", "a", " ", "(", "L", "i", "s", "t", "[", " ", "i",
      "n", "t", "]", ")", ":", " ", "a", "b", "o", "u", "t", " ", "a">>

\* "    a (List[str]): about a"
Line_l_a_str ==
    <<" ", " ", " ", " ", "a", " ", "(", "L", "i", "s", "t", "[", "s", "t",
      "r", "]", ")", ":", " ", "a", "b", "o", "u", "t", " ", "a">>

\* "    a (x.): about a"
Line_a_dot ==
    <<" ", " ", " ", " ", "a", " ", "(", "x", ".", ")", ":", " ", "a", "b",
      "o", "u", "t", " ", "a">>

\* "    a ( ): about a"
Line_a_blank_type ==
    <<" ", " ", " ", " ", "a", " ", "(", " ", ")", ":", " ", "a", "b", "o",
      "u", "t", " ", "a">>

\* "    List[int]: the result"
Line_l_result ==
    <<" ", " ", " ", " ", "L", "i", "s", "t", "[", "i", "n", "t", "]", ":",
      " ", "t", "h", "e", " ", "r", "e", "s", "u", "l", "t">>

\* "    List[ int]: the result"
Line_l_result_spaced ==
    <<" ", " ", " ", " ", "L", "i", "s", "t", "[", " ", "i", "n", "t", "]",
      ":", " ", "t", "h", "e", " ", "r", "e", "s", "u", "l", "t">>

\* "    List[str]: the result"
Line_l_result_str ==
    <<" ", " ", " ", " ", "L", "i", "s", "t", "[", "s", "t", "r", "]", ":",
      " ", "t", "h", "e", " ", "r", "e", "s", "u", "l", "t">>

\* "    typing.List[int]: the result"
Line_l_result_dotted ==
    <<" ", " ", " ", " ", "t", "y", "p", "i", "n", "g", ".", "L", "i", "s",
      "t", "[", "i", "n", "t", "]", ":", " ", "t", "h", "e", " ", "r", "e",
      "s", "u", "l", "t">>

\* "  List[int]: the result"
Line_l_result_shallow ==
    <<" ", " ", "L", "i", "s", "t", "[", "i", "n", "t", "]", ":", " ", "t",
      "h", "e", " ", "r", "e", "s", "u", "l", "t">>

\* "  List[ int]: the result"
Line_l_result_shallow_spaced ==
    <<" ", " ", "L", "i", "s", "t", "[", " ", "i", "n", "t", "]", ":", " ",
      "t", "h", "e", " ", "r", "e", "s", "u", "l", "t">>

\* "    x.: the result"
Line_result_dot ==
    <<" ", " ", " ", " ", "x", ".", ":", " ", "t", "h", "e", " ", "r", "e",
      "s", "u", "l", "t">>

\* "    the result"
Line_result_bare ==
    <<" ", " ", " ", " ", "t", "h", "e", " ", "r", "e", "s", "u", "l", "t">>

MaxTypeLines == 3

TypeLines ==
    {Line_Args, Line_Returns,
     Line_l_a, Line_l_a_spaced, Line_l_a_str,
     Line_a_dot, Line_a_blank_type, Line_l_result,
     Line_l_result_spaced, Line_l_result_str, Line_l_result_dotted,
     Line_l_result_shallow, Line_l_result_shallow_spaced, Line_result_dot,
     Line_result_bare}

\* def l(a: List[int]) -> List[int]:
Fn_l(body) ==
    FunctionDef(<<"l">>,
        Arguments(<<Arg(<<"a">>, Subscript(Name(<<"L", "i", "s", "t">>), Name(int)), 6)>>),
        Subscript(Name(<<"L", "i", "s", "t">>), Name(int)), body)

\* def u(a: x | y) -> x | y:
Fn_u(body) ==
    FunctionDef(<<"u">>, Arguments(<<Arg(<<"a">>, BinOp, 6)>>), BinOp, body)

\* the host hands the visitor l or u with a docstring of 1 to MaxTypeLines
\* lines of TypeLines, followed by pass
VisitTypes ==
    /\ pc = "idle"
    /\ \E k \in 1..MaxTypeLines : \E d \in [1..k -> TypeLines] :
          \/ visit_FunctionDef(Fn_l(<<DocStmt(d), Pass>>))
          \/ visit_FunctionDef(Fn_u(<<DocStmt(d), Pass>>))

InitTypes ==
    \/ Init
    \/ InitRender
    \/ InitCompare

NextTypes ==
    \/ VisitTypes
    \/ CheckDocLine
    \/ VerifyContext
    \/ Render
    \/ RenderPylint
    \/ Compare

SpecTypes == InitTypes /\ [][NextTypes]_vars

\* string without its whitespace characters
Unspaced(string) == SelectSeq(string, LAMBDA c : c \notin Whitespace)

\* the rendered annotation A is equivalent to the documented type D, both
\* without whitespace: they are equal, or D holds a '.' and A is what follows
\* the last '.' of D
Equivalent(A, D) ==
    \/ A = D
    \/ \E i \in DOMAIN D :
          /\ D[i] = "."
          /\ \A j \in DOMAIN D : j > i => D[j] # "."
          /\ A = SubSeq(D, i + 1, Len(D))

\* the rendered annotation of a node: the reference rendering of a supported
\* tree, the empty string for a node the renderer has no branch for
RenderedType(tree) == IF Supported(tree) THEN Reference(tree) ELSE <<>>

\* line holds a colon
HasColon(line) == \E i \in DOMAIN line : line[i] = ":"

\* the type that a return line with a colon documents: the text before the
\* first colon, without whitespace
DocumentedReturnType(line) ==
    Unspaced(SubSeq(line, 1, Min({i \in DOMAIN line : line[i] = ":"}) - 1))

\* the step scans the first line of the Returns section: the section is
\* left for the rest of the Returns section
ScansFirstReturnLine ==
    /\ pc = "scan"
    /\ line_no <= Len(doc_lines)
    /\ context.current_section = "RETURN_FIRST_LINE"
    /\ context'.current_section = "RETURN_REST"

\* C11: when the function has a return annotation and the first line of the
\* Returns section documents a colon-terminated type, BCS010 is emitted iff
\* the documented type is not equivalent to the rendered annotation, once,
\* carrying the function name, the rendered annotation and the documented
\* type; a docstring never gets more than one BCS010.
C11_ReturnTypeMismatch ==
    [][/\ Count("BCS010")' <= 1
       /\ (/\ ScansFirstReturnLine
           /\ node.returns # NoneNode
           /\ HasColon(doc_lines[line_no]))
          => IF Equivalent(RenderedType(node.returns),
                           DocumentedReturnType(doc_lines[line_no]))
             THEN Count("BCS010")' = 0
             ELSE /\ Count("BCS010")' = 1
                  /\ problems'[Len(problems')].code = "BCS010"
                  /\ problems'[Len(problems')].arguments =
                         <<node.name, RenderedType(node.returns),
                           DocumentedReturnType(doc_lines[line_no])>>]_vars

\* l, whose return annotation is List[int], documented as List[str]: one
\* BCS010 that carries 'List[int]' and 'List[str]'
C11_Witness ==
    /\ pc = "done"
    /\ node = Fn_l(<<DocStmt(doc_lines), Pass>>)
    /\ doc_lines = <<Line_Returns, Line_l_result_str>>
    /\ Count("BCS010") = 1
    /\ \E i \in DOMAIN problems :
          /\ problems[i].code = "BCS010"
          /\ problems[i].arguments =
                 <<(<<"l">>),
                   (<<"L", "i", "s", "t", "[", "i", "n", "t", "]">>),
                   (<<"L", "i", "s", "t", "[", "s", "t", "r", "]">>)>>

\* the doc line with the whitespace inside its documented type removed
WithoutTypeSpaces(line) ==
    IF line = Line_l_a_spaced THEN Line_l_a
    ELSE IF line = Line_l_result_spaced THEN Line_l_result
    ELSE IF line = Line_l_result_shallow_spaced THEN Line_l_result_shallow
    ELSE IF line = Line_a_blank_type
    THEN SubSeq(line, 1, 7) \o SubSeq(line, 9, Len(line))
    ELSE line

\* the state that the line scan of lines[i..] leaves, started in st
RECURSIVE ScanFrom(_, _, _, _)
ScanFrom(lines, i, st, n) ==
    IF i > Len(lines) \/ st.exception # "" THEN st
    ELSE ScanFrom(lines, i + 1, _check_doc_line(lines[i], st, n), n)

\* the diagnostics of a visit of n that completes, had the docstring of n
\* been these lines
Diagnostics(n, lines) ==
    _verify_context(
        ScanFrom(lines, 1,
                 [context |-> DocContext,
                  problems |-> _check_return(_check_arguments(<<>>, n.name, n.args), n),
                  exception |-> ""], n), n).problems

\* the type-mismatch diagnostics among probs, in their order
TypeMismatches(probs) ==
    SelectSeq(probs, LAMBDA p : p.code \in {"BCS005", "BCS010"})

\* the part of string after its last '.'
LastSegment(string) ==
    SubSeq(string, Min({i \in 1..(Len(string) + 1) :
                           \A j \in DOMAIN string : j >= i => string[j] # "."}),
           Len(string))

\* the comparison has returned the equivalence of the two types without
\* whitespace, and has told a dotted annotated type from its last segment
ComparesAsDefined ==
    pc = "compared"
        => /\ types_same = Equivalent(Unspaced(type_annotated), Unspaced(type_documented))
           /\ (/\ \E i \in DOMAIN type_annotated : type_annotated[i] = "."
               /\ Unspaced(type_documented) = LastSegment(Unspaced(type_annotated)))
              => ~types_same

\* C12 as claimed: the comparison holds iff, whitespace removed, A equals D
\* or D holds a '.' and A is what follows its last '.'; a dotted A is not
\* equivalent to its last segment; and removing the whitespace inside the
\* documented types of a docstring never changes the emitted diagnostics.
C12_WhitespaceNeverChangesDiagnostics ==
    /\ ComparesAsDefined
    /\ pc = "done"
           => problems = Diagnostics(node, [i \in DOMAIN doc_lines |->
                                               WithoutTypeSpaces(doc_lines[i])])

\* C12: the comparison holds iff, whitespace removed, A equals D or D holds
\* a '.' and A is what follows its last '.'; a dotted A is not equivalent to
\* its last segment; and removing the whitespace inside the documented types
\* of a docstring never changes the type-mismatch diagnostics (BCS005,
\* BCS010) nor what they carry.
C12_WhitespaceNeverChangesTypeMismatches ==
    /\ ComparesAsDefined
    /\ pc = "done"
           => TypeMismatches(problems) =
                  TypeMismatches(Diagnostics(node, [i \in DOMAIN doc_lines |->
                                                       WithoutTypeSpaces(doc_lines[i])]))

\* List[int] was compared with the documented 'typing. List[int]' and found
\* the same
C12_Witness ==
    /\ pc = "compared"
    /\ type_annotated = <<"L", "i", "s", "t", "[", "i", "n", "t", "]">>
    /\ type_documented = <<"t", "y", "p", "i", "n", "g", ".", " ",
                           "L", "i", "s", "t", "[", "i", "n", "t", "]">>
    /\ types_same

\* the number of diagnostics with this code grows by one in the step
Gains(code) == Count(code)' = Count(code) + 1

\* the number of diagnostics with this code stays in the step
Keeps(code) == Count(code)' = Count(code)

\* the flake8 renderer has no branch for the kind of this node
UnrenderedKind(tree) == tree.kind \notin RenderedKinds

\* the pylint renderer has no branch for the kind of this astroid node: the
\* ellipsis literal is the Const whose value is Ellipsis
UnrenderedAstroidKind(tree) ==
    /\ tree.kind \notin {"Name", "Attribute", "Subscript", "List", "Tuple"}
    /\ ~(tree.kind = "Const" /\ tree.value = "Ellipsis")

\* a renderer has returned the empty string for a node of a kind it has no
\* branch for, and has not raised
RendersOtherKindsEmpty ==
    /\ (pc' \in {"rendered", "rendered_again"} /\ UnrenderedKind(annotation_node))
          => (doc_str' = <<>> /\ exception' = "")
    /\ (pc' = "rendered_pylint" /\ UnrenderedAstroidKind(annotation_node))
          => (doc_str' = <<>> /\ exception' = "")

\* the step scans an entry of the Args section that documents, with a type
\* and for the first time, a parameter annotated with a node of a kind the
\* renderer has no branch for
ScansEntryOfOtherKind ==
    /\ pc = "scan"
    /\ line_no <= Len(doc_lines)
    /\ EntryIndex # NoneInt
    /\ ARG_INFO_REGEX(doc_lines[line_no]).groups[3] # NoneStr
    /\ context.found_arg_list = NoneSet \/ EntryIndex \notin context.found_arg_list
    /\ node.args.args[EntryIndex + 1].annotation # NoneNode
    /\ UnrenderedKind(node.args.args[EntryIndex + 1].annotation)

\* the type between the parentheses of the entry being scanned, as written
EntryType ==
    Let(ARG_INFO_REGEX(doc_lines[line_no]).groups[3], LAMBDA type :
        SubSeq(type, 2, Len(type) - 1))

\* the step scans the first line of the Returns section, which holds a
\* colon, of a function whose return annotation is of a kind the renderer
\* has no branch for
ScansReturnOfOtherKind ==
    /\ ScansFirstReturnLine
    /\ HasColon(doc_lines[line_no])
    /\ node.returns # NoneNode
    /\ UnrenderedKind(node.returns)

\* the return type as written: the text before the first colon, after the
\* indent
ReturnType ==
    Let(doc_lines[line_no], LAMBDA line :
        RETURN_INFO_REGEX(line).groups[2])

\* the step appends BCS005 for the entry being scanned, expected type ''
GainsArgumentMismatch ==
    /\ Gains("BCS005")
    /\ \E i \in DOMAIN problems' :
          /\ i > Len(problems)
          /\ problems'[i].code = "BCS005"
          /\ problems'[i].arguments = <<EntryName, <<>>, Unspaced(EntryType)>>

\* the step appends BCS010, expected type ''
GainsReturnMismatch ==
    /\ Gains("BCS010")
    /\ problems'[Len(problems')].code = "BCS010"
    /\ problems'[Len(problems')].arguments = <<node.name, <<>>, Unspaced(ReturnType)>>

DiffersFromEmpty(type) == type # <<>> /\ type[Len(type)] # "."

ArgumentsWith(arg_list, vararg, kwarg, kwonlyargs) ==
    [args |-> arg_list, vararg |-> vararg, kwarg |-> kwarg, kwonlyargs |-> kwonlyargs]

\* the statement return
ReturnStmt == [kind |-> "Return"]

\* "  x"
Line_one ==
    <<" ", " ", "x">>

\* f, _p and __d__
FnNames == {<<"f">>, <<"_", "p">>, <<"_", "_", "d", "_", "_">>}

\* (), (self), (a: int), (*args), (**kwargs) and (*, a: int)
FnArguments ==
    {ArgumentsWith(<<>>, NoneNode, NoneNode, <<>>),
     ArgumentsWith(<<Arg(<<"s", "e", "l", "f">>, NoneNode, 6)>>, NoneNode, NoneNode, <<>>),
     ArgumentsWith(<<Arg(<<"a">>, Name(int), 6)>>, NoneNode, NoneNode, <<>>),
     ArgumentsWith(<<>>, Arg(<<"a", "r", "g", "s">>, NoneNode, 7), NoneNode, <<>>),
     ArgumentsWith(<<>>, NoneNode, Arg(<<"k", "w", "a", "r", "g", "s">>, NoneNode, 8), <<>>),
     ArgumentsWith(<<>>, NoneNode, NoneNode, <<Arg(<<"a">>, Name(int), 9)>>)}

\* no return annotation, -> int and -> None
FnReturns == {NoneNode, Name(int), NameConstant}

\* the statements of the body after the docstring
FnTails == {<<Pass>>, <<ReturnStmt>>}

MaxFnLines == 3

FnLines ==
    {Line_Desc, Line_one, Line_Args, Line_Returns, Line_Note, Line_a, Line_result}

\* the host hands the visitor one function definition without a docstring,
\* or with a docstring of 1 to MaxFnLines lines of FnLines
VisitFunctions ==
    /\ pc = "idle"
    /\ \E name \in FnNames : \E arguments \in FnArguments :
          \E returns \in FnReturns : \E tail \in FnTails :
             \/ visit_FunctionDef(FunctionDef(name, arguments, returns, tail))
             \/ \E k \in 1..MaxFnLines : \E d \in [1..k -> FnLines] :
                   visit_FunctionDef(
                       FunctionDef(name, arguments, returns, <<DocStmt(d)>> \o tail))

NextFunctions ==
    \/ VisitFunctions
    \/ CheckDocLine
    \/ VerifyContext

SpecFunctions == Init /\ [][NextFunctions]_vars

\* the function visited requires documentation: its name does not start
\* with '_' and its body holds a statement that is not an expression
\* statement, a return or a raise
RequiresDocumentation ==
    /\ node.name[1] # "_"
    /\ \E i \in DOMAIN node.body : node.body[i].kind \notin {"Expr", "Return", "Raise"}

\* the function visited has a docstring
HasDocstring == \E i \in DOMAIN node.body : node.body[i].kind = "Expr"

\* the names of the parameters of the function visited, positional and
\* keyword-only, without *args and **kwargs
ParameterNames ==
    {node.args.args[i].arg : i \in DOMAIN node.args.args}
        \cup {node.args.kwonlyargs[i].arg : i \in DOMAIN node.args.kwonlyargs}

\* the function visited has a parameter other than self and cls
HasParameter == ParameterNames \ RESERVED_ARGS # {}

\* C16: post-scan argument verification emits BCS018 iff no Args header was
\* seen, the function has a parameter other than self/cls and requires
\* documentation; BCS019 iff an Args header was seen, the function has no
\* parameter other than self/cls and neither *args nor **kwargs; never both,
\* and no BCS011 along with either.
C16_SectionLevelArguments ==
    (pc = "done" /\ HasDocstring)
        => /\ Count("BCS018") =
                  IF ArgsHeaders = {} /\ HasParameter /\ RequiresDocumentation
                  THEN 1 ELSE 0
           /\ Count("BCS019") =
                  IF /\ ArgsHeaders # {}
                     /\ ~HasParameter
                     /\ node.args.vararg = NoneNode
                     /\ node.args.kwarg = NoneNode
                  THEN 1 ELSE 0
           /\ Count("BCS018") + Count("BCS019") <= 1
           /\ Count("BCS018") + Count("BCS019") > 0 => Count("BCS011") = 0

\* the return annotation of the function visited exists and is not the
\* constant None
ReturnsAType ==
    /\ node.returns # NoneNode
    /\ ~(node.returns.kind = "NameConstant" /\ node.returns.value = "None")

\* C17: post-scan return verification emits BCS020 iff a Returns/Yields
\* header was seen and the function has no return annotation, whether or not
\* the function requires documentation; BCS021 iff no Returns/Yields header
\* was seen, the function requires documentation and its return annotation
\* exists and is not the constant None; never both.
C17_SectionLevelReturn ==
    (pc = "done" /\ HasDocstring)
        => /\ Count("BCS020") =
                  IF ReturnHeaders # {} /\ node.returns = NoneNode THEN 1 ELSE 0
           /\ Count("BCS021") =
                  IF ReturnHeaders = {} /\ RequiresDocumentation /\ ReturnsAType
                  THEN 1 ELSE 0
           /\ Count("BCS020") + Count("BCS021") <= 1

\* the dunder function __d__ without return annotation, whose docstring
\* holds a Returns header, got BCS020
C17_Witness ==
    /\ pc = "done"
    /\ node.name = <<"_", "_", "d", "_", "_">>
    /\ node.returns = NoneNode
    /\ doc_lines = <<Line_Returns, Line_result>>
    /\ Count("BCS020") = 1
    /\ ~RequiresDocumentation

\* the lines consumed while the scanner is in the DESCRIPTION section: the
\* lines before the first header of any section
DescriptionLines ==
    Let(ArgsHeaders \cup ReturnHeaders \cup MiscHeaders, LAMBDA headers :
        {i \in DOMAIN doc_lines : \A h \in headers : i < h})

\* a line of the description is longer than one character once stripped
Described == \E i \in DescriptionLines : Len(strip(doc_lines[i])) > 1

\* C18: for a function with a docstring, BCS017 is emitted exactly once iff
\* no line consumed in the DESCRIPTION section has a stripped length greater
\* than 1 and the function requires documentation (its name does not start
\* with '_' and its body holds a statement that is not an expression
\* statement, a return or a raise); otherwise it is not emitted.
C18_MissingDescription ==
    (Terminal /\ HasDocstring)
        => Count("BCS017") = IF ~Described /\ RequiresDocumentation THEN 1 ELSE 0

\* the docstring diagnostics BCS004 to BCS022
DocstringCodes ==
    {"BCS004", "BCS005", "BCS006", "BCS007", "BCS008", "BCS009", "BCS010",
     "BCS011", "BCS012", "BCS013", "BCS014", "BCS015", "BCS016", "BCS017",
     "BCS018", "BCS019", "BCS020", "BCS021", "BCS022"}

\* C19: for a function without a docstring statement the checker emits
\* BCS003 iff the function requires documentation, and none of BCS004 to
\* BCS022: the visit ends without a line scan and without verification.
C19_NoDocstring ==
    (pc # "idle" /\ node # NoneNode /\ ~HasDocstring)
        => /\ pc = "done"
           /\ doc_lines = <<>>
           /\ context = DocContext
           /\ Count("BCS003") = IF RequiresDocumentation THEN 1 ELSE 0
           /\ \A i \in DOMAIN problems : problems[i].code \notin DocstringCodes

\* def f(a: int) -> int: pass, without docstring, got BCS003 and nothing else
C19_Witness ==
    /\ pc = "done"
    /\ node.name = <<"f">>
    /\ ~HasDocstring
    /\ node.body = <<Pass>>
    /\ node.returns = Name(int)
    /\ Len(node.args.args) = 1
    /\ Len(problems) = 1
    /\ problems[1].code = "BCS003"
    /\ problems[1].arguments = <<(<<"f">>)>>

\* the line being scanned matches no header of any section
MatchesNoHeader ==
    /\ ~ARGS_REGEX(doc_lines[line_no]).matched
    /\ ~RETURN_REGEX(doc_lines[line_no]).matched
    /\ ~MISC_REGEX(doc_lines[line_no]).matched

\* C20: while the section is MISC, consuming a line that matches no Args,
\* Returns/Yields or misc header changes nothing: no diagnostic is appended,
\* no field of the DocContext changes and nothing is raised, whatever the
\* indent and the content of the line.
C20_MiscLinesChangeNothing ==
    [][(/\ pc = "scan"
        /\ line_no <= Len(doc_lines)
        /\ context.current_section = "MISC"
        /\ MatchesNoHeader)
       => (/\ problems' = problems
           /\ context' = context
           /\ exception' = ""
           /\ pc' = "scan")]_vars

\* after 'Note:' the lines ' : x' and '  b (int): about b', an entry with an
\* empty name and an entry at a wrong indent, were consumed in the MISC
\* section and left the DocContext as the header had left it
C20_Witness ==
    /\ pc = "scan"
    /\ doc_lines = <<Line_Note, Line_no_name, Line_b_shallow>>
    /\ line_no = 4
    /\ context = [DocContext EXCEPT !.current_section = "MISC"]

(***************************************************************************)
(* A module of several function definitions walked by one visitor          *)
(***************************************************************************)
MaxFunctions == 3

MaxModuleLines == 2

ModuleLines ==
    {Line_Desc, Line_Args, Line_Returns, Line_a, Line_no_name}

\* the function definitions that come before the last one of a module:
\* undocumented, fully documented, with an entry at an invalid indent, with
\* a MISC section, and with an entry that makes the scan raise
Predecessors ==
    {Fn_f(<<Pass>>),
     Fn_g(<<DocStmt(<<Line_Desc, Line_Args, Line_a, Line_Returns, Line_result>>), Pass>>),
     Fn_f(<<DocStmt(<<Line_Args, Line_b_shallow>>), Pass>>),
     Fn_f(<<DocStmt(<<Line_Note>>), Pass>>),
     Fn_f(<<DocStmt(<<Line_Args, Line_no_name>>), Pass>>)}

\* the last function definition of a module: f or g, undocumented or with a
\* docstring of 1 to MaxModuleLines lines of ModuleLines
ModuleFunctions ==
    {Fn_f(<<Pass>>), Fn_g(<<Pass>>)}
    \cup UNION {{Fn_f(<<DocStmt(d), Pass>>), Fn_g(<<DocStmt(d), Pass>>)} :
                   d \in UNION {[1..k -> ModuleLines] : k \in 1..MaxModuleLines}}

\* BraketCheckstylePlugin.run: a new visitor and the tree it is to visit, a
\* module of 1 to MaxFunctions function definitions
InitModule ==
    /\ node = NoneNode
    /\ doc_lines = <<>>
    /\ line_no = 0
    /\ context = DocContext
    /\ problems = <<>>
    /\ pc = "idle"
    /\ exception = ""
    /\ NoCall
    /\ NoChecker
    /\ body_no = 0
    /\ \E k \in 0..(MaxFunctions - 1) : \E before \in [1..k -> Predecessors] :
          \E last \in ModuleFunctions :
             module_body = before \o <<last>>

\* visitor.visit(self._tree): generic_visit hands the next function
\* definition of the module to visit_FunctionDef; an exception that left an
\* earlier visit has ended the walk
generic_visit ==
    /\ pc \in {"idle", "done"}
    /\ body_no < Len(module_body)
    /\ node' = module_body[body_no + 1]
    /\ body_no' = body_no + 1
    /\ _check_documentation(
           _check_return(_check_arguments(problems, module_body[body_no + 1].name,
                                          module_body[body_no + 1].args),
                         module_body[body_no + 1]),
           _get_first_doc(module_body[body_no + 1]), module_body[body_no + 1])
    /\ UNCHANGED <<exception, calls, module_body, checker>>

NextModule ==
    \/ generic_visit
    \/ CheckDocLine
    \/ VerifyContext

SpecModule == InitModule /\ [][NextModule]_vars

\* the state in which the visit of n by a new visitor ends
VisitedAlone(n) ==
    Let(_check_return(_check_arguments(<<>>, n.name, n.args), n), LAMBDA checked :
        IF _get_first_doc(n) = NoneNode
        THEN [context |-> DocContext,
              problems |-> IF _function_requires_documentation(n)
                           THEN add_problem(checked, n, "BCS003", <<n.name>>)
                           ELSE checked,
              exception |-> ""]
        ELSE Let(ScanFrom(split(_get_first_doc(n).s, "\n"), 1,
                          [context |-> DocContext, problems |-> checked,
                           exception |-> ""], n), LAMBDA st :
                 IF st.exception # "" THEN st ELSE _verify_context(st, n)))

\* the diagnostics of the first k function definitions of the module, each
\* visited by a visitor of its own, one after the other
RECURSIVE EachAlone(_)
EachAlone(k) ==
    IF k = 0 THEN <<>>
    ELSE EachAlone(k - 1) \o VisitedAlone(module_body[k]).problems

\* C21: when the visit of a function definition is over, whatever function
\* definitions the same visitor visited before it, the diagnostics it
\* appended are those a new visitor emits for it, in the same order, and it
\* raised iff the new visitor raises
C21_VisitsAreIndependent ==
    Terminal /\ body_no > 0 =>
        /\ problems = EachAlone(body_no)
        /\ exception = VisitedAlone(module_body[body_no]).exception

\* the third function definition of a module, documented and with
\* diagnostics of its own, has been visited after one whose scan left an
\* Args section with an invalid indent
C21_Witness ==
    /\ pc = "done"
    /\ body_no = 3
    /\ module_body[2] = Fn_f(<<DocStmt(<<Line_Args, Line_b_shallow>>), Pass>>)
    /\ _get_first_doc(node) # NoneNode
    /\ context.found_args
    /\ Len(problems) > Len(EachAlone(2))

(***************************************************************************)
(* The documented function of the specification's scenarios                *)
(***************************************************************************)
\* def f(a: int) -> int:
Fn_fa(body) ==
    FunctionDef(<<"f">>, Arguments(<<Arg(<<"a">>, Name(int), 6)>>), Name(int), body)

\* """Desc.\nArgs:\n    a (int): about a\nReturns:\n    int: the result\n"""
FullDocstring ==
    <<Line_Desc, Line_Args, Line_a, Line_Returns, Line_result, Line_blank>>

\* the lines of lines from the i-th on whose number is in keep, in their order
RECURSIVE Keep(_, _, _)
Keep(lines, i, keep) ==
    IF i > Len(lines) THEN <<>>
    ELSE (IF i \in keep THEN <<lines[i]>> ELSE <<>>) \o Keep(lines, i + 1, keep)

\* the host hands the visitor f(a: int) -> int with the full docstring or
\* with the full docstring less some of its lines
VisitScenario ==
    /\ pc = "idle"
    /\ \E keep \in SUBSET DOMAIN FullDocstring :
          visit_FunctionDef(Fn_fa(<<DocStmt(Keep(FullDocstring, 1, keep)), Pass>>))

NextScenario ==
    \/ VisitScenario
    \/ CheckDocLine
    \/ VerifyContext

SpecScenario == Init /\ [][NextScenario]_vars

\* C22: the visit of f(a: int) -> int with the six lines 'Desc.', 'Args:',
\* '    a (int): about a', 'Returns:', '    int: the result', '' ends after
\* verification with no diagnostic and with an invalid-indent counter of 0
C22_FullDocstringIsClean ==
    Terminal /\ doc_lines = FullDocstring =>
        /\ pc = "done"
        /\ problems = <<>>
        /\ context.invalid_indents = 0

\* the visit of f(a: int) -> int with the six lines is over
C22_Witness ==
    /\ pc = "done"
    /\ node = Fn_fa(<<DocStmt(FullDocstring), Pass>>)
    /\ doc_lines = FullDocstring
    /\ context.found_args /\ context.found_return /\ context.found_description

(***************************************************************************)
(* Keyword-only parameters                                                 *)
(***************************************************************************)
\* the section in which the i-th line of the docstring is scanned
SectionAt(i) ==
    ScanFrom(SubSeq(doc_lines, 1, i - 1), 1,
             [context |-> DocContext, problems |-> <<>>, exception |-> ""],
             node).context.current_section

\* the lines of the docstring that are entries of the Args section, at the
\* entry indent, for the parameter name
EntriesFor(name) ==
    {i \in DOMAIN doc_lines :
        /\ SectionAt(i) = "ARGUMENTS"
        /\ ARGS_REGEX(doc_lines[i]).matched = FALSE
        /\ RETURN_REGEX(doc_lines[i]).matched = FALSE
        /\ MISC_REGEX(doc_lines[i]).matched = FALSE
        /\ ARG_INFO_REGEX(doc_lines[i]).matched
        /\ strip_chars(ARG_INFO_REGEX(doc_lines[i]).groups[2], Backtick) = name
        /\ Len(ARG_INFO_REGEX(doc_lines[i]).groups[1]) = 4}

\* the names of the keyword-only parameters of the function visited
KeywordOnly ==
    {node.args.kwonlyargs[i].arg : i \in DOMAIN node.args.kwonlyargs}

\* C23: when the visit of a function with a docstring is over, a
\* keyword-only parameter documented once in the Args section, with its
\* type and a description, has no diagnostic (no BCS007 in particular), and
\* a keyword-only parameter that the Args section does not document is
\* named by one BCS011
C23_KeywordOnlyParametersCount ==
    pc = "done" /\ HasDocstring =>
        \A p \in KeywordOnly :
            /\ EntriesFor(p) # {} /\ (\A i \in EntriesFor(p) : doc_lines[i] = Line_a)
               /\ Cardinality(EntriesFor(p)) = 1
                  => CountAbout(p) = 0
            /\ EntriesFor(p) = {} /\ context.found_args
                  => CountFor("BCS011", p) = 1

(***************************************************************************)
(* Signatures: names, positional and keyword-only parameters with and      *)
(* without annotations                                                     *)
(***************************************************************************)
MaxParams == 2

MaxSignatureLines == 2

\* f, _, _p, __d and __d__
SignatureNames ==
    {<<"f">>, <<"_">>, <<"_", "p">>, <<"_", "_", "d">>, <<"_", "_", "d", "_", "_">>}

\* the names and the annotations of positional parameters
ParamNames == {<<"s", "e", "l", "f">>, <<"c", "l", "s">>, <<"a">>, <<"b">>}

ParamAnnotations == {NoneNode, Name(int)}

\* the lists of up to MaxParams positional parameters with distinct names;
\* the i-th is at column 6 * i
ParamLists ==
    UNION {{[i \in 1..k |-> Arg(names[i], annotations[i], 6 * i)] :
               names \in {s \in [1..k -> ParamNames] :
                             \A i, j \in 1..k : i # j => s[i] # s[j]},
               annotations \in [1..k -> ParamAnnotations]} :
           k \in 0..MaxParams}

\* no keyword-only parameter, or the keyword-only parameter k without annotation
KeywordOnlyLists == {<<>>, <<Arg(<<"k">>, NoneNode, 30)>>}

SignatureLines == {Line_Args, Line_a, Line_no_name}

\* the host hands the visitor one function definition, without a docstring
\* or with one of 1 to MaxSignatureLines lines of SignatureLines
VisitSignatures ==
    /\ pc = "idle"
    /\ \E name \in SignatureNames : \E params \in ParamLists :
          \E kwonlyargs \in KeywordOnlyLists : \E returns \in FnReturns :
             \/ visit_FunctionDef(
                    FunctionDef(name, ArgumentsWith(params, NoneNode, NoneNode, kwonlyargs),
                                returns, <<Pass>>))
             \/ \E k \in 1..MaxSignatureLines : \E d \in [1..k -> SignatureLines] :
                   visit_FunctionDef(
                       FunctionDef(name,
                                   ArgumentsWith(params, NoneNode, NoneNode, kwonlyargs),
                                   returns, <<DocStmt(d), Pass>>))

NextSignatures ==
    \/ VisitSignatures
    \/ CheckDocLine
    \/ VerifyContext

SpecSignatures == Init /\ [][NextSignatures]_vars

\* the signature checks skip the function visited
Suppressed == startswith(node.name, <<"_", "_">>) \/ node.name = <<"_">>

\* the BCS001 diagnostics that name the parameter p
MissingTypeHints(p) ==
    {j \in DOMAIN problems :
        problems[j].code = "BCS001" /\ problems[j].arguments = <<p.arg>>}

\* C24: from the moment a function is visited, whatever its docstring, each
\* positional parameter without annotation that is not self or cls is named
\* by exactly one BCS001, positioned at the parameter, and every other
\* positional parameter by none; there is exactly one BCS002 iff the
\* function has no return annotation; and there is neither when the name of
\* the function starts with '__' or is '_'
C24_SignatureChecks ==
    node # NoneNode =>
        /\ \A i \in DOMAIN node.args.args :
              Let(node.args.args[i], LAMBDA p :
                  /\ Cardinality(MissingTypeHints(p)) =
                        IF /\ ~Suppressed
                           /\ p.annotation = NoneNode
                           /\ p.arg \notin RESERVED_ARGS
                        THEN 1 ELSE 0
                  /\ \A j \in MissingTypeHints(p) :
                        /\ problems[j].lineno = p.lineno
                        /\ problems[j].col_offset = p.col_offset)
        /\ Count("BCS002") = IF ~Suppressed /\ node.returns = NoneNode THEN 1 ELSE 0

\* the visit of the single-underscore function _p(a, b) without a return
\* annotation is over
C24_Witness ==
    /\ pc = "done"
    /\ node.name = <<"_", "p">>
    /\ Len(node.args.args) = 2
    /\ node.args.args[1].arg = <<"a">> /\ node.args.args[1].annotation = NoneNode
    /\ node.args.args[2].arg = <<"b">> /\ node.args.args[2].annotation = NoneNode
    /\ node.returns = NoneNode
    /\ _get_first_doc(node) # NoneNode
    /\ Count("BCS001") = 2
    /\ Count("BCS002") = 1

(***************************************************************************)
(* The entries of the Args section                                         *)
(***************************************************************************)
\* "    self (M): the receiver"
Line_self ==
    <<" ", " ", " ", " ", "s", "e", "l", "f", " ", "(", "M", ")", ":", " ",
      "t", "h", "e", " ", "r", "e", "c", "e", "i", "v", "e", "r">>

\* "    c (int): about c"
Line_c ==
    <<" ", " ", " ", " ", "c", " ", "(", "i", "n", "t", ")", ":", " ", "a",
      "b", "o", "u", "t", " ", "c">>

\* def m(self, a: int, b) -> int:
Fn_m(body) ==
    FunctionDef(<<"m">>,
        Arguments(<<Arg(<<"s", "e", "l", "f">>, NoneNode, 6),
                    Arg(<<"a">>, Name(int), 12), Arg(<<"b">>, NoneNode, 20)>>),
        Name(int), body)

\* def k(a: int, b: int, c: int) -> int:
Fn_k(body) ==
    FunctionDef(<<"k">>,
        Arguments(<<Arg(<<"a">>, Name(int), 6), Arg(<<"b">>, Name(int), 14),
                    Arg(<<"c">>, Name(int), 22)>>),
        Name(int), body)

\* "    b: about b"
Line_b_untyped ==
    <<" ", " ", " ", " ", "b", ":", " ", "a", "b", "o", "u", "t", " ", "b">>

\* the entry for a with a type of 66 characters and no description: name
\* and type text are 69 characters long
Line_a_long ==
    <<" ", " ", " ", " ", "a", " ", "(", "x", "x", "x", "x", "x", "x", "x",
      "x", "x", "x", "x", "x", "x", "x", "x", "x", "x", "x", "x", "x", "x",
      "x", "x", "x", "x", "x", "x", "x", "x", "x", "x", "x", "x", "x", "x",
      "x", "x", "x", "x", "x", "x", "x", "x", "x", "x", "x", "x", "x", "x",
      "x", "x", "x", "x", "x", "x", "x", "x", "x", "x", "x", "x", "x", "x",
      "x", "x", "x", ")", ":">>

\* the same entry with a type of 67 characters: 70 characters
Line_a_longer ==
    SubSeq(Line_a_long, 1, 7) \o <<"x">> \o SubSeq(Line_a_long, 8, Len(Line_a_long))

\* "    a (int):"
Line_a_typed_bare ==
    <<" ", " ", " ", " ", "a", " ", "(", "i", "n", "t", ")", ":">>

MaxEntries == 3

ArgsEntries ==
    {Line_self, Line_a, Line_b, Line_c, Line_b_untyped, Line_l_a_str, Line_a_bare,
     Line_a_long, Line_a_longer, Line_a_typed_bare}

\* "  Args:"
Line_Args_indented ==
    <<" ", " ", "A", "r", "g", "s", ":">>

\* "    z (int): about z"
Line_z ==
    <<" ", " ", " ", " ", "z", " ", "(", "i", "n", "t", ")", ":", " ", "a",
      "b", "o", "u", "t", " ", "z">>

\* "    z (int): about z" with z between backticks
Line_z_ticked ==
    <<" ", " ", " ", " ", Backtick, "z", Backtick>> \o SubSeq(Line_z, 6, Len(Line_z))

\* "    *args: the others"
Line_star ==
    <<" ", " ", " ", " ", "*", "a", "r", "g", "s", ":", " ", "t", "h", "e",
      " ", "o", "t", "h", "e", "r", "s">>

\* "  z (int): about z"
Line_z_shallow ==
    <<" ", " ", "z", " ", "(", "i", "n", "t", ")", ":", " ", "a", "b", "o",
      "u", "t", " ", "z">>

\* "    : x"
Line_empty_name ==
    <<" ", " ", " ", " ", ":", " ", "x">>

\* "      z (int): about z"
Line_z_six ==
    <<" ", " ", " ", " ", " ", " ", "z", " ", "(", "i", "n", "t", ")", ":",
      " ", "a", "b", "o", "u", "t", " ", "z">>

\* "        z: a detail"
Line_z_deep ==
    <<" ", " ", " ", " ", " ", " ", " ", " ", "z", ":", " ", "a", " ", "d",
      "e", "t", "a", "i", "l">>

\* "        a (int): about a"
Line_a_deep ==
    <<" ", " ", " ", " ", " ", " ", " ", " ", "a", " ", "(", "i", "n", "t",
      ")", ":", " ", "a", "b", "o", "u", "t", " ", "a">>

\* entries at the entry indent, at the continuation indent and at other
\* indents, for names that are and that are not parameters of k
IndentedEntries ==
    {Line_a, Line_z, Line_z_ticked, Line_star, Line_z_shallow, Line_no_name,
     Line_empty_name, Line_z_six, Line_z_deep, Line_a_deep}

\* the host hands the visitor m or k with a docstring that is the Args
\* header and 1 to MaxEntries lines of ArgsEntries, or k with a docstring
\* that is the Args header, at indent 0 or 2, and 1 to MaxEntries lines of
\* IndentedEntries
VisitEntries ==
    /\ pc = "idle"
    /\ \E k \in 1..MaxEntries :
          \/ \E d \in [1..k -> ArgsEntries] :
                \/ visit_FunctionDef(Fn_m(<<DocStmt(<<Line_Args>> \o d), Pass>>))
                \/ visit_FunctionDef(Fn_k(<<DocStmt(<<Line_Args>> \o d), Pass>>))
          \/ \E d \in [1..k -> IndentedEntries] :
                \E header \in {Line_Args, Line_Args_indented} :
                   visit_FunctionDef(Fn_k(<<DocStmt(<<header>> \o d), Pass>>))

NextEntries ==
    \/ VisitEntries
    \/ CheckDocLine
    \/ VerifyContext

SpecEntries == Init /\ [][NextEntries]_vars

\* the index of the parameter that the j-th line of the docstring resolves
\* to as an entry of the Args section, NoneInt when it resolves to none
IndexAt(j) ==
    IF /\ SectionAt(j) = "ARGUMENTS"
       /\ ~ARGS_REGEX(doc_lines[j]).matched
       /\ ~RETURN_REGEX(doc_lines[j]).matched
       /\ ~MISC_REGEX(doc_lines[j]).matched
       /\ ARG_INFO_REGEX(doc_lines[j]).matched
    THEN _get_argument_with_name(
             strip_chars(ARG_INFO_REGEX(doc_lines[j]).groups[2], Backtick), node)
    ELSE NoneInt

\* the lines before the one being scanned that resolved to a parameter
ResolvedBefore == {j \in 1..(line_no - 1) : IndexAt(j) # NoneInt}

Max(S) == CHOOSE i \in S : \A j \in S : j <= i

\* the first declared parameter is self or cls
HasReceiver ==
    Len(node.args.args) > 0 /\ node.args.args[1].arg \in RESERVED_ARGS

\* the index expected of the entry being scanned: start for the first
\* resolved entry, and one more than the index of the resolved entry before
\* it for every other
ExpectedIndex(start) ==
    IF ResolvedBefore = {} THEN start ELSE IndexAt(Max(ResolvedBefore)) + 1

\* the line being scanned is an entry that resolves to a parameter not
\* documented before
ScansNewEntry ==
    Scanning /\ EntryIndex # NoneInt /\ EntryIndex \notin Resolved

\* no two of the entries before the line being scanned resolved to the same
\* parameter
NoDuplicateBefore ==
    \A i, j \in ResolvedBefore : i # j => IndexAt(i) # IndexAt(j)

\* the step that scans a new entry, after entries without a duplicate,
\* reports it out of order iff its index is not the one expected when the
\* first resolved entry is expected at start
OutOfOrderIff(start) ==
    ScansNewEntry /\ NoDuplicateBefore =>
        IF EntryIndex # ExpectedIndex(start)
        THEN /\ Gains("BCS015")
             /\ \E name \in {EntryName} :
                    CountFor("BCS015", name)' = CountFor("BCS015", name) + 1
        ELSE Keeps("BCS015")

\* the indexes that the entries of the docstring resolve to, in their order
RECURSIVE IndexesFrom(_)
IndexesFrom(j) ==
    IF j > Len(doc_lines) THEN <<>>
    ELSE (IF IndexAt(j) # NoneInt THEN <<IndexAt(j)>> ELSE <<>>) \o IndexesFrom(j + 1)

\* the docstring documents all the parameters, with or without the
\* receiver, each once and in the order of their declaration
InDeclarationOrder ==
    \/ IndexesFrom(1) = [i \in 1..Len(node.args.args) |-> i - 1]
    \/ /\ HasReceiver
       /\ IndexesFrom(1) = [i \in 1..(Len(node.args.args) - 1) |-> i]

C26_DuplicateChangesNothingElse ==
    [][Scanning /\ EntryIndex # NoneInt /\ EntryIndex \in Resolved
          => /\ problems' = add_problem(problems, node, "BCS009", <<EntryName>>)
             /\ context'.found_arg_list = context.found_arg_list
             /\ context'.current_arg = context.current_arg]_vars

\* the indent of the entry being scanned
EntryIndent == Len(ARG_INFO_REGEX(doc_lines[line_no]).groups[1])

\* the entry being scanned has a type in parentheses
EntryHasType == ARG_INFO_REGEX(doc_lines[line_no]).groups[3] # NoneStr

\* the line being scanned is an entry at the entry indent that resolves to a
\* parameter not documented before
ScansNewEntryAtIndent ==
    ScansNewEntry /\ EntryIndent = context.args_indent

\* the step appends count diagnostics with this code, all naming name
GainsFor(code, name, count) ==
    /\ Count(code)' = Count(code) + count
    /\ CountFor(code, name)' = CountFor(code, name) + count

EntryDescription == ARG_INFO_REGEX(doc_lines[line_no]).groups[4]

\* the length of the name of the entry being scanned plus the length of its
\* type with the parentheses, 0 for an entry without a type
EntrySize ==
    Len(EntryName)
    + (IF EntryHasType THEN Len(ARG_INFO_REGEX(doc_lines[line_no]).groups[3]) ELSE 0)

\* C28: the step that scans an entry resolving to a parameter not documented
\* before, with or without a type, emits BCS008 for it iff the description
\* without surrounding whitespace is shorter than 2 characters and the name
\* and the type text together are shorter than 70 characters
C28_MissingEntryDescription ==
    [][ScansNewEntryAtIndent =>
          \E name \in {EntryName} :
          \E missing \in {Len(strip(EntryDescription)) < 2 /\ EntrySize < 70} :
             GainsFor("BCS008", name, IF missing THEN 1 ELSE 0)]_vars

(***************************************************************************)
(* The indent of the entries of the Args section                           *)
(***************************************************************************)
\* the line being scanned is a line of the Args section that has the shape
\* of an entry
ScansEntryShape ==
    /\ Scanning
    /\ context.current_section = "ARGUMENTS"
    /\ ~OpensSection
    /\ ARG_INFO_REGEX(doc_lines[line_no]).matched

\* the indent of the first Args header of the docstring
ArgsHeaderIndent == Len(ARGS_REGEX(doc_lines[Min(ArgsHeaders)]).groups[1])

ScansContinuationEntry ==
    ScansEntryShape /\ EntryIndent = ArgsHeaderIndent + 8

\* C30 as the claim states it: the step that scans an entry-shaped line at
\* the continuation indent leaves the documented set and the expected next
\* argument index as they were and emits no duplicate, order, type or
\* description diagnostic, whatever its name is
C30_ContinuationDocumentsNothing ==
    [][ScansContinuationEntry =>
          /\ context'.found_arg_list = context.found_arg_list
          /\ context'.current_arg = context.current_arg
          /\ \A code \in {"BCS004", "BCS005", "BCS008", "BCS009", "BCS015"} :
                Keeps(code)]_vars

\* C30: the step that scans an entry-shaped line at the continuation indent
\* counts no invalid indent and emits no BCS007; when the name of the line
\* is the name of no parameter the step changes nothing, and when it is the
\* name of a parameter the step does what it does for the same entry at the
\* entry indent: documented set, expected next argument index and
\* diagnostics
C30_ContinuationOfParameterIsEntry ==
    [][ScansContinuationEntry =>
          \E resolves \in {_get_argument_with_name(EntryName, node) # NoneInt} :
          \E entry \in {_check_doc_line(Drop(doc_lines[line_no], 4),
                            [context |-> context, problems |-> problems,
                             exception |-> ""], node)} :
             /\ context'.invalid_indents = context.invalid_indents
             /\ Keeps("BCS007")
             /\ IF resolves
                THEN context' = entry.context /\ problems' = entry.problems
                ELSE context' = context /\ problems' = problems]_vars

\* k(a, b, c) with an entry for a at the continuation indent and then one
\* at the entry indent: the second is a duplicate
C30_Witness ==
    /\ pc = "done"
    /\ doc_lines = <<Line_Args, Line_a_deep, Line_a>>
    /\ CountFor("BCS009", <<"a">>) = 1
    /\ context.found_arg_list = {0}
    /\ context.invalid_indents = 0

(***************************************************************************)
(* The indents of the lines of the Args and of the Returns section         *)
(***************************************************************************)
\* "    more about a"
Line_text ==
    <<" ", " ", " ", " ", "m", "o", "r", "e", " ", "a", "b", "o", "u", "t",
      " ", "a">>

\* "      more about a"
Line_text_six ==
    <<" ", " ", " ", " ", " ", " ", "m", "o", "r", "e", " ", "a", "b", "o",
      "u", "t", " ", "a">>

\* "        more about a"
Line_text_deep ==
    <<" ", " ", " ", " ", " ", " ", " ", " ", "m", "o", "r", "e", " ", "a",
      "b", "o", "u", "t", " ", "a">>

\* "   "
Line_spaces ==
    <<" ", " ", " ">>

\* "  Returns:"
Line_Returns_indented ==
    <<" ", " ", "R", "e", "t", "u", "r", "n", "s", ":">>

MaxIndentLines == 3

\* entry-shaped lines, text lines and lines without text at the indents 0
\* to 8
IndentLines ==
    {Line_a, Line_a_deep, Line_z_six, Line_no_name, Line_result, Line_text,
     Line_text_six, Line_text_deep, Line_wrapped, Line_blank, Line_spaces}

\* the Args and the Returns header at indent 0 and at indent 2
IndentHeaders ==
    {Line_Args, Line_Args_indented, Line_Returns, Line_Returns_indented}

\* the host hands the visitor k with a docstring that is a header of
\* IndentHeaders and 1 to MaxIndentLines lines of IndentLines
VisitIndents ==
    /\ pc = "idle"
    /\ \E k \in 1..MaxIndentLines : \E d \in [1..k -> IndentLines] :
          \E header \in IndentHeaders :
             visit_FunctionDef(Fn_k(<<DocStmt(<<header>> \o d), Pass>>))

NextIndents ==
    \/ VisitIndents
    \/ CheckDocLine
    \/ VerifyContext

SpecIndents == Init /\ [][NextIndents]_vars

\* the line being scanned is a line of the Args section that matches no
\* header
ScansArgumentsLine ==
    /\ Scanning
    /\ context.current_section = "ARGUMENTS"
    /\ MatchesNoHeader

\* the line being scanned is one the Args section takes for an invalid
\* indent: an entry-shaped line at neither the entry indent nor the
\* continuation indent, or a line with text that is not entry-shaped and
\* not at the continuation indent
InvalidInArguments ==
    IF ARG_INFO_REGEX(doc_lines[line_no]).matched
    THEN LineIndent \notin {ArgsHeaderIndent + 4, ArgsHeaderIndent + 8}
    ELSE /\ strip(doc_lines[line_no]) # <<>>
         /\ LineIndent # ArgsHeaderIndent + 8

\* C31: the step that scans a line of the Args section matching no header
\* raises the count of invalid indents by one when the line is entry-shaped
\* at an indent other than the header's plus 4 and plus 8, or has text, is
\* not entry-shaped and is at an indent other than the header's plus 8, and
\* leaves the count as it was for every other line, the lines without text
\* included
C31_ArgumentsIndents ==
    [][ScansArgumentsLine =>
          \E invalid \in {InvalidInArguments} :
             context'.invalid_indents =
                 context.invalid_indents + (IF invalid THEN 1 ELSE 0)]_vars

\* the line being scanned is a line of the Returns section after the first
\* that matches no header
ScansReturnRest ==
    /\ Scanning
    /\ context.current_section = "RETURN_REST"
    /\ MatchesNoHeader

\* the indent of the first Returns/Yields header of the docstring
ReturnHeaderIndent == Len(RETURN_REGEX(doc_lines[Min(ReturnHeaders)]).groups[1])

\* C32: the step that scans a line of the Returns section after the first
\* return line, matching no header, raises the count of invalid indents by
\* one when the line has text and its indent is not the indent of the
\* Returns/Yields header plus 4, the indent expected of the first return
\* line, and leaves the count as it was when the line is at that indent or
\* has no text; a wrapped description deeper than the first line is counted
C32_ReturnRestIndents ==
    [][ScansReturnRest =>
          \E invalid \in {/\ strip(doc_lines[line_no]) # <<>>
                          /\ LineIndent # ReturnHeaderIndent + 4} :
             context'.invalid_indents =
                 context.invalid_indents + (IF invalid THEN 1 ELSE 0)]_vars

\* 'Returns:', '    int: the result', '        more about a', '    more
\* about a': the wrapped line at indent 8 is the one invalid indent
C32_Witness ==
    /\ pc = "done"
    /\ doc_lines = <<Line_Returns, Line_result, Line_text_deep, Line_text>>
    /\ context.invalid_indents = 1
    /\ context.first_invalid_indent_line = strip(Line_text_deep)

(***************************************************************************)
(* The first line of the Returns section                                   *)
(***************************************************************************)
\* "Yields:"
Line_Yields ==
    <<"Y", "i", "e", "l", "d", "s", ":">>

MaxReturnLines == 4

\* the headers, return lines with and without a colon, and the empty line
ReturnLines ==
    {Line_Returns, Line_Yields, Line_Args, Line_Note, Line_result, Line_a_bare,
     Line_Desc, Line_blank}

\* def f(a: int): with this return annotation, None for none
Fn_returning(returns, body) ==
    FunctionDef(<<"f">>, Arguments(<<Arg(<<"a">>, Name(int), 6)>>), returns, body)

\* the host hands the visitor f, with and without the return annotation
\* int, with a docstring of 1 to MaxReturnLines lines of ReturnLines
VisitReturns ==
    /\ pc = "idle"
    /\ \E k \in 1..MaxReturnLines : \E d \in [1..k -> ReturnLines] :
          \E returns \in {NoneNode, Name(int)} :
             visit_FunctionDef(Fn_returning(returns, <<DocStmt(d), Pass>>))

NextReturns ==
    \/ VisitReturns
    \/ CheckDocLine
    \/ VerifyContext

SpecReturns == Init /\ [][NextReturns]_vars

\* the line being scanned is handled by the section handler as the first
\* line of the Returns section
ScansAsFirstReturnLine ==
    /\ Scanning
    /\ context.current_section = "RETURN_FIRST_LINE"
    /\ ~OpensSection

\* the description of the return line being scanned: what follows its first
\* colon, and the whole line when it has none
ReturnDescription ==
    IF HasColon(doc_lines[line_no])
    THEN Drop(doc_lines[line_no], Min({i \in DOMAIN doc_lines[line_no] :
                                          doc_lines[line_no][i] = ":"}))
    ELSE doc_lines[line_no]

\* the step appends one diagnostic with this code when due, none otherwise
GainsIff(code, due) == Count(code)' = Count(code) + (IF due THEN 1 ELSE 0)

\* C33: the scanner enters RETURN_FIRST_LINE only on the first
\* Returns/Yields header and leaves it with the next line scanned; a line
\* that the section handler gets in that state, the empty line included, is
\* parsed as the return line and leaves the scanner in RETURN_REST: for a
\* function with a return annotation it gets BCS016 iff its description is
\* shorter than 2 characters, BCS006 iff it has no colon (the whole line is
\* then the description), and BCS010 iff it has one and the type before it
\* is not equivalent to the rendered annotation.  A function never gets
\* more than one of BCS006 and BCS010 together, nor more than one BCS016
C33_FirstReturnLineOnce ==
    [][/\ (/\ context'.current_section = "RETURN_FIRST_LINE"
           /\ context.current_section # "RETURN_FIRST_LINE")
          => (/\ Scanning
              /\ RETURN_REGEX(doc_lines[line_no]).matched
              /\ ~context.found_return)
       /\ (Scanning /\ context.current_section = "RETURN_FIRST_LINE")
          => context'.current_section # "RETURN_FIRST_LINE"
       /\ ScansAsFirstReturnLine =>
             /\ context'.current_section = "RETURN_REST"
             /\ exception' = ""
             /\ IF node.returns = NoneNode
                THEN \A code \in {"BCS006", "BCS010", "BCS016"} : Keeps(code)
                ELSE /\ GainsIff("BCS016", Len(strip(ReturnDescription)) < 2)
                     /\ GainsIff("BCS006", ~HasColon(doc_lines[line_no]))
                     /\ GainsIff("BCS010",
                            /\ HasColon(doc_lines[line_no])
                            /\ ~Equivalent(RenderedType(node.returns),
                                   DocumentedReturnType(doc_lines[line_no])))
       /\ Count("BCS006")' + Count("BCS010")' <= 1
       /\ Count("BCS016")' <= 1]_vars

\* f(a: int) -> int with 'Returns:', '', 'Returns:', '    int: the result':
\* the empty line was the return line (BCS016, BCS006), the second header is
\* a duplicate and the typed line is no return line any more
C33_Witness ==
    /\ pc = "done"
    /\ node.returns = Name(int)
    /\ doc_lines = <<Line_Returns, Line_blank, Line_Returns, Line_result>>
    /\ context.current_section = "RETURN_REST"
    /\ Count("BCS016") = 1
    /\ Count("BCS006") = 1
    /\ Count("BCS010") = 0
    /\ Count("BCS014") = 1

\* the line after the first Returns/Yields header documents, before its
\* colon, a type equivalent to the rendered return annotation
ReturnTypeDocumented ==
    \E i \in {Min(ReturnHeaders) + 1} :
       /\ i <= Len(doc_lines)
       /\ HasColon(doc_lines[i])
       /\ Equivalent(RenderedType(node.returns), DocumentedReturnType(doc_lines[i]))

\* C34: when the visit of a function with a return annotation is over and
\* its docstring has a Returns/Yields header, the diagnostics hold BCS006
\* or BCS010 unless an equivalent return type is documented, also when the
\* header is the last line or is followed by another header
C34_ReturnTypeNeverSilent ==
    (/\ Terminal
     /\ node.returns # NoneNode
     /\ ReturnHeaders # {}
     /\ ~ReturnTypeDocumented)
    => Count("BCS006") + Count("BCS010") >= 1

(***************************************************************************)
(* The order of the diagnostics of one function                            *)
(***************************************************************************)
\* the codes of the diagnostics that the scan of a line emits
ScanCodes ==
    {"BCS004", "BCS005", "BCS006", "BCS007", "BCS008", "BCS009", "BCS010",
     "BCS012", "BCS013", "BCS014", "BCS015", "BCS016"}

\* the place of a verification diagnostic in the order description,
\* arguments completeness, return completeness, indent tally; 0 for the
\* other diagnostics
VerificationRank(code) ==
    IF code = "BCS017" THEN 1
    ELSE IF code \in {"BCS018", "BCS019", "BCS011"} THEN 2
    ELSE IF code \in {"BCS020", "BCS021"} THEN 3
    ELSE IF code = "BCS022" THEN 4
    ELSE 0

\* the diagnostics that the step appends
Appended == SubSeq(problems', Len(problems) + 1, Len(problems'))

\* the step keeps the diagnostics it finds and adds after them
AppendsOnly ==
    /\ Len(problems') >= Len(problems)
    /\ SubSeq(problems', 1, Len(problems)) = problems

\* C35: every step only appends to the diagnostics; the scan of a line
\* appends diagnostics of the scan alone and the verification appends, after
\* all of them, diagnostics of the verification alone, in the order
\* description, arguments completeness, return completeness, indent tally;
\* so no verification diagnostic precedes a scan diagnostic, and BCS022
\* occurs at most once and is then the last diagnostic of the function
C35_DiagnosticOrder ==
    [][/\ AppendsOnly
       /\ Scanning =>
             \A i \in DOMAIN Appended : Appended[i].code \in ScanCodes
       /\ (pc = "scan" /\ pc' = "done") =>
             /\ \A i \in DOMAIN Appended : VerificationRank(Appended[i].code) > 0
             /\ \A i, j \in DOMAIN Appended :
                   i < j => VerificationRank(Appended[i].code)
                               <= VerificationRank(Appended[j].code)
       /\ \A i, j \in DOMAIN problems' :
             i < j => ~(/\ VerificationRank(problems'[i].code) > 0
                        /\ problems'[j].code \in ScanCodes)
       /\ Count("BCS022")' <= 1
       /\ Count("BCS022")' = 1 => problems'[Len(problems')].code = "BCS022"]_vars

\* f(a, b: int) with 'Args:', '  b (int): about b', '    b (int): about b':
\* the signature diagnostic, the two of the scan in the order of the lines,
\* and the four of the verification in its order
C35_Witness ==
    /\ pc = "done"
    /\ doc_lines = <<Line_Args, Line_b_shallow, Line_b>>
    /\ [i \in DOMAIN problems |-> problems[i].code] =
           <<"BCS001", "BCS015", "BCS009", "BCS017", "BCS011", "BCS021", "BCS022">>

(***************************************************************************)
(* The DocContext over the scan of one docstring                           *)
(***************************************************************************)
\* the section agrees with the headers seen, and the documented set holds
\* indexes of declared parameters only
ContextConsistent ==
    /\ context.current_section = "ARGUMENTS"
          => context.found_args /\ \E i \in 1..(line_no - 1) : i \in ArgsHeaders
    /\ context.current_section \in {"RETURN_FIRST_LINE", "RETURN_REST"}
          => context.found_return /\ \E i \in 1..(line_no - 1) : i \in ReturnHeaders
    /\ node # NoneNode => \A i \in Resolved : i \in 0..(Len(node.args.args) - 1)
    /\ node = NoneNode => Resolved = {}

\* a header of any section was scanned before the line being scanned
HeaderBefore ==
    \E i \in 1..(line_no - 1) : i \in ArgsHeaders \cup ReturnHeaders \cup MiscHeaders

\* C36: in every state the section is ARGUMENTS only after an Args header
\* and RETURN_FIRST_LINE or RETURN_REST only after a Returns/Yields header,
\* and the documented set holds indexes of declared parameters only; no
\* step takes one of the three found flags from true to false, takes the
\* section back to DESCRIPTION or removes an index from the documented set;
\* the description is found only by a line scanned in DESCRIPTION that no
\* header precedes
C36_ContextOnlyAdvances ==
    [][/\ ContextConsistent
       /\ ContextConsistent'
       /\ context.found_args => context'.found_args
       /\ context.found_return => context'.found_return
       /\ context.found_description => context'.found_description
       /\ context.current_section # "DESCRIPTION"
             => context'.current_section # "DESCRIPTION"
       /\ Resolved \subseteq Resolved'
       /\ (~context.found_description /\ context'.found_description)
             => (/\ Scanning
                 /\ context.current_section = "DESCRIPTION"
                 /\ MatchesNoHeader
                 /\ ~HeaderBefore)]_vars

\* f(a, b: int) with 'Desc.', 'Args:', '    b (int): about b', 'Returns:':
\* all three flags are set, b is documented and the section is the one of
\* the last header
C36_Witness ==
    /\ pc = "done"
    /\ doc_lines = <<Line_Desc, Line_Args, Line_b, Line_Returns>>
    /\ node.name = <<"f">>
    /\ context.found_description
    /\ context.found_args
    /\ context.found_return
    /\ context.current_section = "RETURN_FIRST_LINE"
    /\ context.found_arg_list = {1}

(***************************************************************************)
(* The tally of the invalid indents                                        *)
(***************************************************************************)
\* the text of the first offending line is unset exactly while no invalid
\* indent was counted
TextIffCounted ==
    context.first_invalid_indent_line = NoneStr <=> context.invalid_indents = 0

\* C37: no step lowers the count of invalid indents and no step raises it
\* by more than one; the text of the first offending line is unset exactly
\* while the count is 0, so it is set by the step that takes the count from
\* 0 to 1, and no step changes it once the count is above 0
C37_IndentTally ==
    [][/\ context'.invalid_indents >= context.invalid_indents
       /\ context'.invalid_indents <= context.invalid_indents + 1
       /\ TextIffCounted
       /\ TextIffCounted'
       /\ context.invalid_indents > 0
             => context'.first_invalid_indent_line
                    = context.first_invalid_indent_line]_vars

\* 'Args:' and three lines at the indents 2, 4 and 6: three invalid indents
\* and the text of the first
C37_Witness ==
    /\ pc = "done"
    /\ doc_lines = <<Line_Args, Line_wrapped, Line_text, Line_z_six>>
    /\ context.invalid_indents = 3
    /\ context.first_invalid_indent_line = Cut(Line_wrapped)

(***************************************************************************)
(* The pylint checker, BraketCheckstyleChecker, on the same function.  Its *)
(* methods work on st, the DocContext and the messages added so far, and   *)
(* on n, the astroid FunctionDef; none of them raises on a line of text.   *)
(***************************************************************************)
\* ^(\s*)(Throws|Raises|See also|Example|Examples)\s*:\s*$
BraketCheckstyleChecker_MISC_REGEX(line) ==
    HeaderMatch(line, {<<"T", "h", "r", "o", "w", "s">>,
                       <<"R", "a", "i", "s", "e", "s">>,
                       <<"S", "e", "e", " ", "a", "l", "s", "o">>,
                       <<"E", "x", "a", "m", "p", "l", "e">>,
                       <<"E", "x", "a", "m", "p", "l", "e", "s">>})

\* ^(\s*)(\w*)\s*(\([^:]*\))?\s*:\s*(.*) : group 3 is NoneStr when it takes
\* no part in the match
BraketCheckstyleChecker_ARG_INFO_REGEX(line) ==
    Let(Span(line, Whitespace), LAMBDA indent :
    Let(Drop(line, indent), LAMBDA s1 :
    Let(Span(s1, WordChars), LAMBDA name_len :
    Let(Drop(s1, name_len), LAMBDA s5 :
    Let(Drop(s5, Span(s5, Whitespace)), LAMBDA s6 :
    Let(Find(s6, ":"), LAMBDA colon :
    Let(RFind(IF colon = 0 THEN s6 ELSE Take(s6, colon - 1), ")"), LAMBDA close :
    Let(Len(s6) > 0 /\ s6[1] = "(" /\ close > 0, LAMBDA has_type :
    Let(IF has_type THEN Drop(s6, close) ELSE s6, LAMBDA s7 :
    Let(Drop(s7, Span(s7, Whitespace)), LAMBDA s8 :
        IF Len(s8) > 0 /\ s8[1] = ":"
        THEN [matched |-> TRUE,
              groups |-> <<Take(line, indent),
                           Take(s1, name_len),
                           IF has_type THEN Take(s6, close) ELSE NoneStr,
                           Drop(s8, 1 + Span(Tail(s8), Whitespace))>>]
        ELSE NoMatch))))))))))

\* self.add_message(symbol, node=node, args=args)
BraketCheckstyleChecker_add_message(messages, symbol, n, args) ==
    Append(messages, [symbol |-> symbol, node |-> n.name, args |-> args])

\* the module's _invalid_indent_found: line is always a str here
braket_checkstyle_checker_invalid_indent_found(line, st) ==
    IF st.context.invalid_indents = 0
    THEN Let(strip(line), LAMBDA stripped :
             [st EXCEPT !.context.first_invalid_indent_line =
                            IF Len(stripped) > 18
                            THEN Take(stripped, 15) \o <<".", ".", ".">>
                            ELSE stripped,
                        !.context.invalid_indents = @ + 1])
    ELSE [st EXCEPT !.context.invalid_indents = @ + 1]

\* the module's _get_argument_with_name
braket_checkstyle_checker_get_argument_with_name(arg_name, n) ==
    Let({i \in 1..Len(n.args.args) : n.args.args[i].name = arg_name}, LAMBDA found :
        IF found = {} THEN NoneInt
        ELSE (CHOOSE i \in found : \A j \in found : i <= j) - 1)

BraketCheckstyleChecker_check_argument_indent(arg_indent, arg_name, arg_index, st, n) ==
    IF Len(arg_indent) = st.context.args_indent
    THEN IF arg_index = NoneInt
         THEN [st EXCEPT !.messages =
                  BraketCheckstyleChecker_add_message(@, "unknown-argument-in-doc",
                                                      n, <<arg_name>>)]
         ELSE st
    ELSE IF Len(arg_indent) # st.context.args_indent + 4
         THEN braket_checkstyle_checker_invalid_indent_found(arg_name, st)
         ELSE st

BraketCheckstyleChecker_check_argument_docs(arg_name, arg_type, arg_description, arg_index, st, n) ==
    IF st.context.found_arg_list # NoneSet /\ arg_index \in st.context.found_arg_list
    THEN [st EXCEPT !.messages =
             BraketCheckstyleChecker_add_message(@, "argument-doc-multiple-times",
                                                 n, <<arg_name>>)]
    ELSE
    Let([st EXCEPT !.context.found_arg_list =
            IF @ = NoneSet THEN {arg_index} ELSE @ \cup {arg_index}], LAMBDA st1 :
    Let(IF /\ st1.context.current_arg = 0
           /\ arg_index # st1.context.current_arg
           /\ n.args.args[1].name \in RESERVED_ARGS
        THEN [st1 EXCEPT !.context.current_arg = 1]
        ELSE st1, LAMBDA st2 :
    Let(IF arg_index # st2.context.current_arg
        THEN [st2 EXCEPT !.messages =
                 BraketCheckstyleChecker_add_message(@, "argument-doc-out-of-order",
                                                     n, <<arg_name>>)]
        ELSE st2, LAMBDA st3 :
    Let(IF arg_type = NoneStr
        THEN [st3 EXCEPT !.messages =
                 BraketCheckstyleChecker_add_message(
                     @, "argument-doc-missing-type-hint", n, <<arg_name>>)]
        ELSE IF n.args.annotations[arg_index + 1] # NoneNode
        THEN Let(_remove_all_spaces(SubSeq(arg_type, 2, Len(arg_type) - 1)),
                 LAMBDA documented_type :
             Let(_remove_all_spaces(
                     BraketCheckstyleChecker_annotation_to_doc_str(
                         n.args.annotations[arg_index + 1])),
                 LAMBDA annotation_doc :
                 IF ~_are_type_strings_same(annotation_doc, documented_type)
                 THEN [st3 EXCEPT !.messages =
                          BraketCheckstyleChecker_add_message(
                              @, "argument-doc-type-hint-mismatch", n,
                              <<arg_name, annotation_doc, documented_type>>)]
                 ELSE st3))
        ELSE st3, LAMBDA st4 :
        IF arg_description = NoneStr \/ Len(strip(arg_description)) < 2
        THEN [st4 EXCEPT !.messages =
                 BraketCheckstyleChecker_add_message(
                     @, "argument-doc-missing-description", n, <<arg_name>>)]
        ELSE st4))))

\* _check_argument_info that leaves the expected argument where it was
BraketCheckstyleChecker_check_argument_info_unmoved(regex_matches, st, n) ==
    Let(regex_matches.groups[1], LAMBDA arg_indent :
    Let(regex_matches.groups[2], LAMBDA arg_name :
    Let(regex_matches.groups[3], LAMBDA arg_type :
    Let(regex_matches.groups[4], LAMBDA arg_description :
    Let(braket_checkstyle_checker_get_argument_with_name(arg_name, n),
        LAMBDA arg_index :
    Let(BraketCheckstyleChecker_check_argument_indent(arg_indent, arg_name,
                                                      arg_index, st, n),
        LAMBDA st1 :
        IF arg_index = NoneInt THEN st1
        ELSE BraketCheckstyleChecker_check_argument_docs(
                 arg_name, arg_type, arg_description, arg_index, st1, n)))))))

BraketCheckstyleChecker_check_argument_info(regex_matches, st, n) ==
    Let(regex_matches.groups[1], LAMBDA arg_indent :
    Let(regex_matches.groups[2], LAMBDA arg_name :
    Let(regex_matches.groups[3], LAMBDA arg_type :
    Let(regex_matches.groups[4], LAMBDA arg_description :
    Let(braket_checkstyle_checker_get_argument_with_name(arg_name, n),
        LAMBDA arg_index :
    Let(BraketCheckstyleChecker_check_argument_indent(arg_indent, arg_name,
                                                      arg_index, st, n),
        LAMBDA st1 :
        IF arg_index = NoneInt THEN st1
        ELSE [BraketCheckstyleChecker_check_argument_docs(
                  arg_name, arg_type, arg_description, arg_index, st1, n)
                 EXCEPT !.context.current_arg = arg_index + 1]))))))

BraketCheckstyleChecker_check_return_info(regex_matches, st, n) ==
    Let(regex_matches.groups[1], LAMBDA return_indent :
    Let(regex_matches.groups[3], LAMBDA colon :
    Let(IF Len(return_indent) # st.context.return_indent
        THEN braket_checkstyle_checker_invalid_indent_found(
                 regex_matches.groups[2], st)
        ELSE st, LAMBDA st1 :
    Let(IF colon = NoneStr THEN regex_matches.groups[2]
        ELSE regex_matches.groups[4], LAMBDA return_description :
    Let(IF colon = NoneStr THEN NoneStr
        ELSE regex_matches.groups[2], LAMBDA documented_type :
    Let(/\ return_description # NoneStr
        /\ Len(strip(return_description)) > 1, LAMBDA has_documentation :
    Let(IF n.returns # NoneNode /\ ~has_documentation
        THEN [st1 EXCEPT !.messages =
                 BraketCheckstyleChecker_add_message(
                     @, "return-doc-missing-description", n, <<n.name>>)]
        ELSE st1, LAMBDA st2 :
        IF n.returns # NoneNode
        THEN Let(_remove_all_spaces(
                     BraketCheckstyleChecker_annotation_to_doc_str(n.returns)),
                 LAMBDA return_doc :
                 IF documented_type = NoneStr
                 THEN [st2 EXCEPT !.messages =
                          BraketCheckstyleChecker_add_message(
                              @, "return-doc-type-hint-missing", n,
                              <<n.name, return_doc>>)]
                 ELSE Let(_remove_all_spaces(documented_type), LAMBDA documented :
                          IF ~_are_type_strings_same(return_doc, documented)
                          THEN [st2 EXCEPT !.messages =
                                   BraketCheckstyleChecker_add_message(
                                       @, "return-doc-type-hint-mismatch", n,
                                       <<n.name, return_doc, documented>>)]
                          ELSE st2))
        ELSE st2)))))))

BraketCheckstyleChecker_check_indent(expected_indent, line, st) ==
    Let(INDENT_REGEX(line), LAMBDA match :
        IF match.matched /\ Len(match.groups[1]) # expected_indent
        THEN braket_checkstyle_checker_invalid_indent_found(line, st)
        ELSE st)

\* the three header methods return a bool:
\* [st |-> the state left, ret |-> the value returned]
BraketCheckstyleChecker_check_doc_args(doc_line, st, n) ==
    Let(ARGS_REGEX(doc_line), LAMBDA match :
        IF match.matched
        THEN IF st.context.found_args
             THEN [st |-> [st EXCEPT !.messages =
                              BraketCheckstyleChecker_add_message(
                                  @, "function-doc-args-duplicate", n, <<n.name>>)],
                   ret |-> FALSE]
             ELSE [st |-> [st EXCEPT
                              !.messages =
                                  IF st.context.found_return
                                  THEN BraketCheckstyleChecker_add_message(
                                           @, "function-doc-wrong-order", n,
                                           <<n.name>>)
                                  ELSE @,
                              !.context.found_args = TRUE,
                              !.context.args_indent = Len(match.groups[1]) + 4,
                              !.context.current_section = "ARGUMENTS"],
                   ret |-> TRUE]
        ELSE [st |-> st, ret |-> FALSE])

BraketCheckstyleChecker_check_doc_return(doc_line, st, n) ==
    Let(RETURN_REGEX(doc_line), LAMBDA match :
        IF match.matched
        THEN IF st.context.found_return
             THEN [st |-> [st EXCEPT !.messages =
                              BraketCheckstyleChecker_add_message(
                                  @, "function-doc-return-duplicate", n,
                                  <<n.name>>)],
                   ret |-> FALSE]
             ELSE [st |-> [st EXCEPT
                              !.context.found_return = TRUE,
                              !.context.return_indent = Len(match.groups[1]) + 4,
                              !.context.current_section = "RETURN_FIRST_LINE"],
                   ret |-> TRUE]
        ELSE [st |-> st, ret |-> FALSE])

BraketCheckstyleChecker_check_doc_misc(doc_line, st, n) ==
    IF BraketCheckstyleChecker_MISC_REGEX(doc_line).matched
    THEN [st |-> [st EXCEPT !.context.current_section = "MISC"], ret |-> TRUE]
    ELSE [st |-> st, ret |-> FALSE]

BraketCheckstyleChecker_check_doc_section(doc_line, st, n) ==
    IF st.context.current_section = "DESCRIPTION"
    THEN IF Len(strip(doc_line)) > 1
         THEN [st EXCEPT !.context.found_description = TRUE]
         ELSE st
    ELSE IF st.context.current_section = "ARGUMENTS"
    THEN Let(BraketCheckstyleChecker_ARG_INFO_REGEX(doc_line), LAMBDA matches :
             IF matches.matched
             THEN BraketCheckstyleChecker_check_argument_info(matches, st, n)
             ELSE BraketCheckstyleChecker_check_indent(
                      st.context.args_indent + 4, doc_line, st))
    ELSE IF st.context.current_section = "RETURN_FIRST_LINE"
    THEN [BraketCheckstyleChecker_check_return_info(
              RETURN_INFO_REGEX(doc_line), st, n)
             EXCEPT !.context.current_section = "RETURN_REST"]
    ELSE IF st.context.current_section = "RETURN_REST"
    THEN BraketCheckstyleChecker_check_indent(st.context.return_indent, doc_line, st)
    ELSE st

BraketCheckstyleChecker_check_doc_line(doc_line, st, n) ==
    Let(BraketCheckstyleChecker_check_doc_args(doc_line, st, n), LAMBDA r1 :
        IF r1.ret THEN r1.st
        ELSE Let(BraketCheckstyleChecker_check_doc_return(doc_line, r1.st, n),
                 LAMBDA r2 :
        IF r2.ret THEN r2.st
        ELSE Let(BraketCheckstyleChecker_check_doc_misc(doc_line, r2.st, n),
                 LAMBDA r3 :
        IF r3.ret THEN r3.st
        ELSE BraketCheckstyleChecker_check_doc_section(doc_line, r3.st, n))))

\* the module's _function_requires_documentation: the body of an astroid
\* FunctionDef does not hold the docstring
braket_checkstyle_checker_function_requires_documentation(n) ==
    IF startswith(n.name, <<"_">>) THEN FALSE
    ELSE IF Len(n.body) = 1 /\ n.body[1].kind = "Return" THEN FALSE
    ELSE TRUE

\* the module's _return_type_requires_documentation
braket_checkstyle_checker_return_type_requires_documentation(n) ==
    IF n.returns = NoneNode THEN FALSE
    ELSE IF n.returns.kind = "Const" THEN n.returns.value # "None"
    ELSE TRUE

BraketCheckstyleChecker_function_has_arguments_to_document(n) ==
    IF Len(n.args.args) = 0 THEN FALSE
    ELSE \E i \in 1..Len(n.args.args) : n.args.args[i].name \notin RESERVED_ARGS

BraketCheckstyleChecker_verify_description(st, n) ==
    IF /\ ~st.context.found_description
       /\ braket_checkstyle_checker_function_requires_documentation(n)
    THEN [st EXCEPT !.messages =
             BraketCheckstyleChecker_add_message(
                 @, "missing-function-doc-description", n, <<n.name>>)]
    ELSE st

BraketCheckstyleChecker_verify_args(st, n) ==
    IF ~st.context.found_args
    THEN IF BraketCheckstyleChecker_function_has_arguments_to_document(n)
         THEN [st EXCEPT !.messages =
                  BraketCheckstyleChecker_add_message(
                      @, "missing-function-doc-args", n, <<n.name>>)]
         ELSE st
    ELSE IF ~BraketCheckstyleChecker_function_has_arguments_to_document(n)
    THEN [st EXCEPT !.messages =
             BraketCheckstyleChecker_add_message(
                 @, "redundant-function-doc-args", n, <<n.name>>)]
    ELSE IF st.context.found_arg_list # NoneSet
    THEN Let(SelectSeq([i \in 1..Len(n.args.args) |-> i - 1],
                 LAMBDA index :
                     /\ index \notin st.context.found_arg_list
                     /\ n.args.args[index + 1].name \notin RESERVED_ARGS),
             LAMBDA missing :
                 [st EXCEPT !.messages = @ \o
                     [k \in 1..Len(missing) |->
                         [symbol |-> "argument-doc-missing",
                          node |-> n.name,
                          args |-> <<n.args.args[missing[k] + 1].name>>]]])
    ELSE st

BraketCheckstyleChecker_verify_return(st, n) ==
    IF st.context.found_return
    THEN IF n.returns = NoneNode
         THEN [st EXCEPT !.messages =
                  BraketCheckstyleChecker_add_message(
                      @, "redundant-function-doc-return", n, <<n.name>>)]
         ELSE st
    ELSE IF /\ braket_checkstyle_checker_function_requires_documentation(n)
            /\ braket_checkstyle_checker_return_type_requires_documentation(n)
         THEN [st EXCEPT !.messages =
                  BraketCheckstyleChecker_add_message(
                      @, "missing-function-doc-return", n, <<n.name>>)]
         ELSE st

BraketCheckstyleChecker_verify_indents(st, n) ==
    IF st.context.invalid_indents > 0
    THEN [st EXCEPT !.messages =
             BraketCheckstyleChecker_add_message(
                 @, "invalid-doc-indent", n,
                 <<st.context.invalid_indents,
                   st.context.first_invalid_indent_line>>)]
    ELSE st

BraketCheckstyleChecker_verify_context(st, n) ==
    BraketCheckstyleChecker_verify_indents(
        BraketCheckstyleChecker_verify_return(
            BraketCheckstyleChecker_verify_args(
                BraketCheckstyleChecker_verify_description(st, n), n), n), n)

\* _check_arguments: one message per parameter without annotation that is
\* not self or cls, whatever the name of the function
BraketCheckstyleChecker_check_arguments(messages, args) ==
    Let(SelectSeq([i \in 1..Len(args.annotations) |-> i],
                  LAMBDA index :
                      /\ args.annotations[index] = NoneNode
                      /\ args.args[index].name \notin RESERVED_ARGS),
        LAMBDA untyped :
            messages \o [k \in 1..Len(untyped) |->
                            [symbol |-> "missing-type-hint",
                             node |-> args.args[untyped[k]].name,
                             args |-> <<args.args[untyped[k]].name>>]])

BraketCheckstyleChecker_check_return(messages, n) ==
    IF /\ n.returns = NoneNode
       /\ ~startswith(n.name, <<"_", "_">>)
       /\ n.name # <<"_">>
    THEN BraketCheckstyleChecker_add_message(messages, "missing-return-type-hint",
                                             n, <<n.name>>)
    ELSE messages

(***************************************************************************)
(* The two scanners side by side: the host hands the same function to the  *)
(* flake8 visitor, as an ast tree, and to the pylint checker, as an        *)
(* astroid tree.                                                           *)
(*   checker_pc = "idle"   the checker is constructed                      *)
(*   checker_pc = "scan"   _check_documentation is in its loop,            *)
(*                         checker_doc_lines[checker_line_no] is next      *)
(*   checker_pc = "done"   visit_functiondef has returned                  *)
(***************************************************************************)
\* the astroid annotation of an ast annotation that is a name or absent
AstroidAnnotation(annotation) ==
    IF annotation = NoneNode THEN NoneNode ELSE AstroidName(annotation.id)

\* the astroid FunctionDef of the function whose ast FunctionDef is n: the
\* parameters are AssignName nodes with their annotations beside them, and
\* the docstring is doc_node and not a statement of the body
AstroidFunctionDef(n) ==
    Let(Len(n.body) > 0 /\ n.body[1].kind = "Expr" /\ n.body[1].value.kind = "Str",
        LAMBDA has_doc :
        [kind |-> "FunctionDef",
         name |-> n.name,
         args |-> [args |-> [i \in 1..Len(n.args.args) |->
                                [kind |-> "AssignName",
                                 name |-> n.args.args[i].arg]],
                   annotations |-> [i \in 1..Len(n.args.args) |->
                                       AstroidAnnotation(
                                           n.args.args[i].annotation)]],
         returns |-> AstroidAnnotation(n.returns),
         doc_node |-> IF has_doc THEN Const(n.body[1].value.s) ELSE NoneNode,
         body |-> IF has_doc THEN Tail(n.body) ELSE n.body])

\* the state st that a method leaves becomes the checker's state
CheckerLeave(st, next_pc, next_line_no) ==
    /\ checker_context' = st.context
    /\ checker_messages' = st.messages
    /\ checker_pc' = next_pc
    /\ checker_line_no' = next_line_no

BraketCheckstyleChecker_check_documentation(checked, n) ==
    IF n.doc_node = NoneNode \/ n.doc_node.kind # "Const"
    THEN /\ checker_messages' =
                IF braket_checkstyle_checker_function_requires_documentation(n)
                THEN BraketCheckstyleChecker_add_message(
                         checked, "missing-function-doc", n, <<n.name>>)
                ELSE checked
         /\ checker_pc' = "done"
         /\ UNCHANGED <<checker_doc_lines, checker_line_no, checker_context>>
    ELSE /\ checker_messages' = checked
         /\ checker_doc_lines' = split(n.doc_node.value, "\n")
         /\ checker_context' = DocContext
         /\ checker_line_no' = 1
         /\ checker_pc' = "scan"

\* visit_functiondef up to the loop of _check_documentation
visit_functiondef(n) ==
    /\ checker_pc = "idle"
    /\ checker_node' = n
    /\ BraketCheckstyleChecker_check_documentation(
           BraketCheckstyleChecker_check_return(
               BraketCheckstyleChecker_check_arguments(checker_messages, n.args),
               n),
           n)
    /\ UNCHANGED <<node, doc_lines, line_no, context, problems, pc, exception,
                   calls, walk>>

\* one iteration of the loop: self._check_doc_line(doc_line, context, node)
CheckerCheckDocLine ==
    /\ checker_pc = "scan"
    /\ checker_line_no <= Len(checker_doc_lines)
    /\ CheckerLeave(BraketCheckstyleChecker_check_doc_line(
                        checker_doc_lines[checker_line_no],
                        [context |-> checker_context,
                         messages |-> checker_messages],
                        checker_node),
                    "scan", checker_line_no + 1)
    /\ UNCHANGED <<node, doc_lines, line_no, context, problems, pc, exception,
                   calls, walk, checker_node, checker_doc_lines>>

\* the loop is over: self._verify_context(context, node)
CheckerVerifyContext ==
    /\ checker_pc = "scan"
    /\ checker_line_no > Len(checker_doc_lines)
    /\ CheckerLeave(BraketCheckstyleChecker_verify_context(
                        [context |-> checker_context,
                         messages |-> checker_messages],
                        checker_node),
                    "done", checker_line_no)
    /\ UNCHANGED <<node, doc_lines, line_no, context, problems, pc, exception,
                   calls, walk, checker_node, checker_doc_lines>>

\* "Raises:"
Line_Raises ==
    <<"R", "a", "i", "s", "e", "s", ":">>

\* "    a (int): about a" with a between backticks
Line_a_ticked ==
    SubSeq(Line_a, 1, 4) \o <<Backtick, "a", Backtick>> \o SubSeq(Line_a, 6, Len(Line_a))

\* "  (int): x"
Line_type_only ==
    <<" ", " ", "(", "i", "n", "t", ")", ":", " ", "x">>

\* the docstrings of the side-by-side runs have 1 to MaxBothLines lines
MaxBothLines == 4

BothLines ==
    {Line_Desc, Line_Args, Line_Returns, Line_Raises, Line_Note, Line_a,
     Line_a_ticked, Line_a_bare, Line_type_only, Line_b_shallow, Line_wrapped}

\* how far the visitor is: before the visit, at a line, or past the loop
VisitorProgress ==
    IF pc = "idle" THEN 0
    ELSE IF pc = "scan" THEN line_no
    ELSE Len(doc_lines) + 2

\* how far the checker is
CheckerProgress ==
    IF checker_pc = "idle" THEN 0
    ELSE IF checker_pc = "scan" THEN checker_line_no
    ELSE Len(checker_doc_lines) + 2

\* the host hands h to the visitor, without a docstring or with one of 1 to
\* MaxBothLines lines of BothLines
VisitBoth ==
    /\ pc = "idle"
    /\ \/ visit_FunctionDef(Fn_h(<<Pass>>))
       \/ \E k \in 1..MaxBothLines : \E d \in [1..k -> BothLines] :
             visit_FunctionDef(Fn_h(<<DocStmt(d), Pass>>))

\* and the same function, as an astroid tree, to the checker
VisitBothChecker ==
    /\ pc # "idle"
    /\ visit_functiondef(AstroidFunctionDef(node))

\* the two run in step: the visitor takes a step when the checker has caught
\* up with it, the checker when it is behind (it goes on alone once an
\* exception has left the visitor)
NextBoth ==
    \/ VisitBoth
    \/ VisitBothChecker
    \/ VisitorProgress = CheckerProgress /\ CheckDocLine
    \/ VisitorProgress = CheckerProgress /\ VerifyContext
    \/ CheckerProgress < VisitorProgress /\ CheckerCheckDocLine
    \/ CheckerProgress < VisitorProgress /\ CheckerVerifyContext

SpecBoth == Init /\ [][NextBoth]_vars

\* the state the checker's scan of lines[i..upto] leaves, started in st
RECURSIVE CheckerScanFrom(_, _, _, _, _)
CheckerScanFrom(lines, i, upto, st, n) ==
    IF i > upto THEN st
    ELSE CheckerScanFrom(lines, i + 1, upto,
                         BraketCheckstyleChecker_check_doc_line(lines[i], st, n), n)

\* the section the checker is in after the first k lines of the docstring
SectionAfter(k) ==
    CheckerScanFrom(checker_doc_lines, 1, k,
                    [context |-> DocContext, messages |-> <<>>],
                    checker_node).context.current_section

\* line i of the docstring is scanned as an entry of the Args section
ArgumentEntry(i) ==
    /\ SectionAfter(i - 1) = "ARGUMENTS"
    /\ SectionAfter(i) = "ARGUMENTS"
    /\ ARG_INFO_REGEX(checker_doc_lines[i]).matched

\* the line is a header of both scanners or of none
CommonVocabulary(line) ==
    MISC_REGEX(line).matched <=> BraketCheckstyleChecker_MISC_REGEX(line).matched

\* the first k lines of the docstring use the common header vocabulary, hold
\* no backtick and no asterisk, and their argument entries have a name and a
\* parenthesized type
Comparable(k) ==
    \A i \in 1..k :
        /\ CommonVocabulary(checker_doc_lines[i])
        /\ \A j \in DOMAIN checker_doc_lines[i] :
               checker_doc_lines[i][j] \notin {Backtick, "*"}
        /\ ArgumentEntry(i)
              => /\ ARG_INFO_REGEX(checker_doc_lines[i]).groups[2] # <<>>
                 /\ ARG_INFO_REGEX(checker_doc_lines[i]).groups[3] # NoneStr

\* the visitor and the checker are in the same section, with the same found
\* flags, indent baselines, documented set, expected argument and counter
SameScan ==
    /\ context.current_section = checker_context.current_section
    /\ context.found_description = checker_context.found_description
    /\ context.found_args = checker_context.found_args
    /\ context.found_return = checker_context.found_return
    /\ context.args_indent = checker_context.args_indent
    /\ context.return_indent = checker_context.return_indent
    /\ context.found_arg_list = checker_context.found_arg_list
    /\ context.current_arg = checker_context.current_arg
    /\ context.invalid_indents = checker_context.invalid_indents

\* C38: run side by side on the same function and docstring, the flake8
\* scanner and the pylint scanner are, before every line and at the end, in
\* the same section with the same found flags, indent baselines, documented
\* set, expected argument index and invalid-indent counter, and no exception
\* leaves the flake8 scanner, as long as the lines scanned so far use only
\* the header vocabulary common to both, hold no backtick and no asterisk,
\* and every argument entry among them has a non-empty name and a
\* parenthesized type
C38_SameScanSideBySide ==
    /\ (pc = "scan" /\ checker_pc = "scan" /\ line_no = checker_line_no
          /\ Comparable(line_no - 1))
          => SameScan
    /\ (pc = "done" /\ checker_pc = "done" /\ doc_lines # <<>>
          /\ Comparable(Len(checker_doc_lines)))
          => SameScan
    /\ (pc = "raised" /\ checker_pc # "idle") => ~Comparable(line_no)

\* both have scanned an Args section with an entry for a, an entry for b at
\* an invalid indent, and a Raises header
C38_Witness ==
    /\ pc = "done"
    /\ checker_pc = "done"
    /\ doc_lines = <<Line_Args, Line_a, Line_b_shallow, Line_Raises>>
    /\ Comparable(4)
    /\ checker_context.found_arg_list = {0, 1}
    /\ checker_context.invalid_indents = 1
    /\ checker_context.current_section = "MISC"

=============================================================================
